---- MODULE Spec2Model ----
(***************************************************************************)
(* Session negotiation of the dungeon game server: the proposal            *)
(* (generateAppSessionMessage), the signature collection                   *)
(* (addAppSessionSignature), the assembly and submission                   *)
(* (createAppSessionWithSignatures), the in-memory session storage and the *)
(* settlement connection (NitroliteRPCClient) they run over, with its      *)
(* handshake and the requests it correlates by id; and the room registry   *)
(* (createRoomManager) with the handlers of the players' join and start    *)
(* messages.                                                               *)
(*                                                                         *)
(* The server is single-threaded: one action is one run of the event loop  *)
(* from a message, timer or socket event up to the next suspension at a    *)
(* network round trip.  Continuations that are only queued as microtasks   *)
(* (awaiting an already settled promise, signing) run in the same action.  *)
(***************************************************************************)
EXTENDS Integers, Sequences, FiniteSets, TLC

\* ------------------------------------------------------------------ bounds
NumRooms == 1
NumPlayers == 3
MaxTime == 2
MaxSockets == 1
MaxCalls == 2
MaxListeners == 2
MaxWire == 2
MaxSessionIds == 2
NumSharedRooms == 2
MaxRequests == 2
MaxTimers == 2
MaxMoves == 2
MaxOverlap == 2
NumConnections == 2

Rooms == 1..NumRooms
\* The rooms that share the settlement connection.
SharedRooms == 1..NumSharedRooms
\* A room id is the id of the socket that created the room: a number, or 0
\* for the undefined id of a socket that was given none.
UndefinedId == 0
RoomKeys == {UndefinedId} \cup Rooms \cup SharedRooms
PlayerIds == 1..NumPlayers
SocketIds == 1..MaxSockets
CallIds == 1..MaxCalls
SessionIds == 1..MaxSessionIds

\* --------------------------------------------------------------- addresses
\* An address is written in checksum case, in lower case, or is not an
\* address at all; the keys of the settlement connection have addresses too.
EOA(i) == [kind |-> "eoa", id |-> i, form |-> "checksum"]
LowerEOA(i) == [kind |-> "eoa", id |-> i, form |-> "lower"]
BadAddress == [kind |-> "invalid", id |-> 0, form |-> "lower"]
NullAddress == [kind |-> "null", id |-> 0, form |-> "none"]
UndefinedAddress == [kind |-> "undefined", id |-> 0, form |-> "none"]
KeyAddress(k) == [kind |-> "key", id |-> k, form |-> "lower"]

AddressInputs == {EOA(i) : i \in PlayerIds} \cup {LowerEOA(1), BadAddress}
\* The players that ask for a proposal.
HostInputs == {EOA(1), LowerEOA(1), BadAddress}

\* ethers.getAddress: throws on anything that is not an address, and
\* otherwise returns the checksum form.
isAddress(a) == a.kind \in {"eoa", "key"}
getAddress(a) == [a EXCEPT !.form = "checksum"]

\* -------------------------------------------------------------- signatures
SignatureLength == 132

GoodSig == [t |-> "string", prefix |-> TRUE, len |-> SignatureLength, key |-> 0, over |-> 0]
ShortSig == [t |-> "string", prefix |-> TRUE, len |-> 10, key |-> 0, over |-> 0]
NoPrefixSig == [t |-> "string", prefix |-> FALSE, len |-> SignatureLength, key |-> 0, over |-> 0]
EmptySig == [t |-> "string", prefix |-> FALSE, len |-> 0, key |-> 0, over |-> 0]
NotStringSig == [t |-> "number", prefix |-> FALSE, len |-> 0, key |-> 0, over |-> 0]
UndefinedSig == [t |-> "undefined", prefix |-> FALSE, len |-> 0, key |-> 0, over |-> 0]
NullSig == [t |-> "null", prefix |-> FALSE, len |-> 0, key |-> 0, over |-> 0]

SignatureInputs == {GoodSig, ShortSig, NoPrefixSig, EmptySig, NotStringSig}

\* The session signer: a well-formed signature of key k over request n.
sessionSigner(k, n) == [t |-> "string", prefix |-> TRUE, len |-> SignatureLength, key |-> k, over |-> n]

\* JavaScript truthiness of a signature value, and String.startsWith('0x').
Truthy(s) == s.t \notin {"undefined", "null"} /\ ~(s.t = "string" /\ s.len = 0)
startsWith0x(s) == s.t = "string" /\ s.prefix

\* Map.get and Map.set on the signature map, a function on the keys it holds.
MapGet(m, k) == IF k \in DOMAIN m THEN m[k] ELSE UndefinedSig
MapSet(m, k, v) == [x \in (DOMAIN m) \cup {k} |-> IF x = k THEN v ELSE m[x]]
MapSize(m) == Cardinality(DOMAIN m)
EmptyMap == [x \in {} |-> UndefinedSig]

\* JSON.stringify writes an undefined array entry as null.
Stringify(sigs) == [i \in DOMAIN sigs |-> IF sigs[i].t = "undefined" THEN NullSig ELSE sigs[i]]

\* ---------------------------------------------------------------- sessions
NoSession == [kind |-> "none"]

\* The amounts are decimal strings; every session of the model is proposed
\* with '0'.
parseFloat(amount) == CASE amount = "0" -> 0

toString(n) == CASE n = 0 -> "0"

\* A definition that shares the weight between the player and the service.
appDefinitionShared(a, server, nonce) ==
    [protocol     |-> "NitroRPC/0.4",
     participants |-> <<a, server>>,
     weights      |-> <<50, 50>>,
     quorum       |-> 100,
     challenge    |-> 0,
     nonce        |-> nonce]

\* Lines 69-77 of generateAppSessionMessage.
appDefinition(a, server, nonce) ==
    [protocol     |-> "NitroRPC/0.4",
     participants |-> <<a, server>>,
     weights      |-> <<0, 100>>,
     quorum       |-> 100,
     challenge    |-> 0,
     nonce        |-> nonce]

initialSessionData(a, server, t) ==
    [betAmount     |-> "0",
     feeHistory    |-> <<[event |-> "session_created", timestamp |-> t, feeUsed |-> FALSE,
                          player1Contribution |-> "0", totalPot |-> toString(0)]>>,
     startTime     |-> t,
     gameState     |-> "created",
     moves         |-> <<>>,
     totalMoves    |-> 0,
     serverAddress |-> server,
     nonce         |-> t]

appSessionData(a, server, t) ==
    [definition   |-> appDefinition(a, server, t),
     allocations  |-> <<[participant |-> a, asset |-> "usdc", amount |-> "0"]>>,
     session_data |-> initialSessionData(a, server, t)]

\* createAppSessionMessage: the request tuple [id, method, params, timestamp]
\* and the signature of the signer over it.
createAppSessionMessage(k, a, server, t) ==
    [req |-> <<t, "create_app_session", appSessionData(a, server, t), t>>,
     sig |-> <<sessionSigner(k, t)>>]

\* The object generateAppSessionMessage stores: a is the formatted player
\* address, k the session key of the client, t the value of Date.now().
StoredPending(a, k, t) ==
    LET server == getAddress(KeyAddress(k))
        msg == createAppSessionMessage(k, a, server, t)
    IN  [appSessionData  |-> appSessionData(a, server, t),
         appDefinition   |-> appDefinition(a, server, t),
         participantA    |-> a,
         serverAddress   |-> server,
         requestToSign   |-> msg.req,
         nonce           |-> t,
         signatures      |-> EmptyMap,
         serverSignature |-> msg.sig[1]]

\* What generateAppSessionMessage returns for a stored pending session.
Proposal(p) ==
    [appSessionData |-> p.appSessionData,
     appDefinition  |-> p.appDefinition,
     participants   |-> <<p.participantA, p.serverAddress>>,
     requestToSign  |-> p.requestToSign]

\* ------------------------------------------------------------------- state
VARIABLES
    now,                 \* Date.now()
    pendingAppSessions,  \* session storage: room -> pending session
    roomAppSessions,     \* session storage: room -> active session
    ws,                  \* rpcClient.ws: a socket, or 0 for null
    readyState,          \* socket -> UNUSED, CONNECTING, OPEN, CLOSING, CLOSED
    authState,           \* socket -> none, pending, done, failed: the handshake its 'open' started
    authSock,            \* socket -> the socket that handshake listens on, or 0
    status,              \* rpcClient.status
    sessionKey,          \* rpcClient.sessionKey: a key, or 0 for null
    calls,               \* the suspended asynchronous calls
    listeners,           \* 'message' listeners of the sockets, in order
    wire,                \* socket -> number of unanswered create_app_session
    out,                 \* what the last step returned, threw and sent
    pendingRequests,     \* rpcClient.pendingRequests: the ids awaiting a response
    nextRequestId,       \* rpcClient.nextRequestId
    rooms,               \* roomManager.rooms: room id -> room
    addressToRoom,       \* roomManager.addressToRoom: address -> room id
    connections,         \* the server's connections map: eoa as sent -> entry
    sockets,             \* the players' sockets: readyState and id
    ID,                  \* the counter that gives sockets their id
    gameLoops,           \* the rooms whose detection interval is running
    closeTimers          \* room id -> the scheduled calls of closeRoom

sessionVars == <<pendingAppSessions, roomAppSessions>>
clientVars == <<ws, readyState, authState, authSock, status, sessionKey>>
requestVars == <<pendingRequests, nextRequestId>>
registryVars == <<rooms, addressToRoom, connections, sockets, ID, gameLoops, closeTimers>>

vars == <<now, pendingAppSessions, roomAppSessions, ws, readyState, authState, authSock,
          status, sessionKey, calls, listeners, wire, out, requestVars, registryVars>>

\* A suspended call: pend and live are its reference to a pending session;
\* notify, robj and rlive are those of a handleJoinRoom that awaits the
\* proposal and holds a reference to its room.
FreeCall == [op |-> "none", room |-> 0, pc |-> "free", sock |-> 0,
             pend |-> NoSession, live |-> FALSE, addr |-> UndefinedAddress,
             notify |-> FALSE, robj |-> [kind |-> "none"], rlive |-> FALSE]

\* One thing a step did towards its caller or the ledger: ev is "return",
\* "throw" or "send", op the operation, val the value; arg is the signature
\* given to addAppSessionSignature, the pending object of an assembly,
\* whether the address given to generateAppSessionMessage is one.
Event(ev, op, r, arg, val) == [ev |-> ev, op |-> op, room |-> r, arg |-> arg, val |-> val]

\* The players' sockets and a room of the registry.
ConnectionIds == 1..NumConnections
OPEN == 1
CLOSED == 3
NoRoom == [kind |-> "none"]
NoEntry == [kind |-> "none"]

\* Session storage and the calls, as the module is loaded.
InitStorage ==
    /\ now = 1
    /\ pendingAppSessions = [r \in RoomKeys |-> NoSession]
    /\ roomAppSessions = [r \in RoomKeys |-> NoSession]
    /\ calls = [c \in CallIds |-> FreeCall]
    /\ listeners = <<>>
    /\ wire = [s \in SocketIds |-> 0]
    /\ out = <<>>

\* new NitroliteRPCClient(url, privateKey)
InitClient ==
    /\ ws = 0
    /\ readyState = [s \in SocketIds |-> "UNUSED"]
    /\ authState = [s \in SocketIds |-> "none"]
    /\ authSock = [s \in SocketIds |-> 0]
    /\ status = "disconnected"
    /\ sessionKey = 0
    /\ pendingRequests = {}
    /\ nextRequestId = 1

\* createRoomManager(), the server's connections map, and players' sockets
\* that are connected and were given no id yet.
InitRegistry ==
    /\ rooms = [k \in RoomKeys |-> NoRoom]
    /\ addressToRoom = EmptyMap
    /\ connections = EmptyMap
    /\ sockets = [c \in ConnectionIds |-> [readyState |-> OPEN, id |-> UndefinedId]]
    /\ ID = 1
    /\ gameLoops = {}
    /\ closeTimers = [k \in RoomKeys |-> 0]

Init == InitStorage /\ InitClient /\ InitRegistry

\* ------------------------------------------------------------------ client
WsOpen(w, rs) == w # 0 /\ rs[w] = "OPEN"
UnusedSockets == {s \in DOMAIN readyState : readyState[s] = "UNUSED"}
HasFreeCall == \E c \in CallIds : calls[c].pc = "free"
NewCall == CHOOSE c \in CallIds : calls[c].pc = "free" /\ \A d \in CallIds : calls[d].pc = "free" => c <= d
NewSocket == CHOOSE s \in UnusedSockets : \A u \in UnusedSockets : s <= u

\* The pending object of room r is replaced or deleted: the calls that hold
\* a reference to it keep the object as it was.
Detach(cs, r) == [c \in CallIds |-> IF cs[c].room = r THEN [cs[c] EXCEPT !.live = FALSE] ELSE cs[c]]

\* The pending object of room r is changed in place: the calls that hold a
\* reference to it see the change.
Share(cs, r, p) == [c \in CallIds |-> IF cs[c].room = r /\ cs[c].live THEN [cs[c] EXCEPT !.pend = p] ELSE cs[c]]

Tick ==
    /\ now < MaxTime
    /\ now' = now + 1
    /\ out' = <<>>
    /\ UNCHANGED <<sessionVars, clientVars, calls, listeners, wire>>
    /\ UNCHANGED <<requestVars, registryVars>>

\* ---------------------------------------------------- signature collection
RequiredSignatures == 2

\* The format checks without the one of the prefix.
SignatureAcceptedUnprefixed(s) == Truthy(s) /\ s.t = "string"

\* The format checks of addAppSessionSignature that end in `return false`.
SignatureAccepted(s) == Truthy(s) /\ s.t = "string" /\ startsWith0x(s)

AllCollected(p) == MapSize(p.signatures) = RequiredSignatures

addAppSessionSignature(r, a, s) ==
    LET pending == pendingAppSessions[r]
        arg == s
        stored == [pending EXCEPT !.signatures = MapSet(@, getAddress(a), s)]
    IN  /\ IF pending = NoSession
              THEN /\ out' = <<Event("return", "addAppSessionSignature", r, arg, FALSE)>>
                   /\ UNCHANGED <<pendingAppSessions, calls>>
           ELSE IF ~isAddress(a)
              THEN /\ out' = <<Event("throw", "addAppSessionSignature", r, arg, "invalid address")>>
                   /\ UNCHANGED <<pendingAppSessions, calls>>
           ELSE IF ~SignatureAccepted(s)
              THEN /\ out' = <<Event("return", "addAppSessionSignature", r, arg, FALSE)>>
                   /\ UNCHANGED <<pendingAppSessions, calls>>
           ELSE /\ pendingAppSessions' = [pendingAppSessions EXCEPT ![r] = stored]
                /\ calls' = Share(calls, r, stored)
                /\ out' = <<Event("return", "addAppSessionSignature", r, arg, AllCollected(stored))>>
        /\ UNCHANGED <<now, roomAppSessions, clientVars, listeners, wire>>
        /\ UNCHANGED <<requestVars, registryVars>>

\* ----------------------------------------------------------------- propose
\* A proposal that never finds a stored one to reuse.
ReusedPendingNever(r) == NoSession

\* The check of generateAppSessionMessage for a proposal to reuse.
ReusedPending(r) == pendingAppSessions[r]

\* connect(): a new socket replaces rpcClient.ws; the call waits for it.
ConnectWith(cs, c, call) ==
    /\ UnusedSockets # {}
    /\ status' = "connecting"
    /\ ws' = NewSocket
    /\ readyState' = [readyState EXCEPT ![NewSocket] = "CONNECTING"]
    /\ calls' = [cs EXCEPT ![c] = [call EXCEPT !.pc = "connecting", !.sock = NewSocket]]
    /\ UNCHANGED <<authState, authSock, sessionKey>>

Connect(c, call) == ConnectWith(calls, c, call)

generateAppSessionMessage(r, a) ==
    LET pending == ReusedPending(r)
        formattedA == getAddress(a)
    IN  /\ IF ~isAddress(a)
              THEN /\ out' = <<Event("throw", "generateAppSessionMessage", r, FALSE, "invalid address")>>
                   /\ UNCHANGED <<sessionVars, clientVars, calls>>
           ELSE IF pending # NoSession
              THEN /\ out' = <<Event("return", "generateAppSessionMessage", r, TRUE, Proposal(pending))>>
                   /\ UNCHANGED <<sessionVars, clientVars, calls>>
           ELSE IF WsOpen(ws, readyState)
              THEN IF sessionKey = 0
                      THEN /\ out' = <<Event("throw", "generateAppSessionMessage", r, TRUE, "sessionKey is null")>>
                           /\ UNCHANGED <<sessionVars, clientVars, calls>>
                      ELSE /\ pendingAppSessions' =
                                [pendingAppSessions EXCEPT ![r] = StoredPending(formattedA, sessionKey, now)]
                           /\ calls' = Detach(calls, r)
                           /\ out' = <<Event("return", "generateAppSessionMessage", r, TRUE,
                                             Proposal(StoredPending(formattedA, sessionKey, now)))>>
                           /\ UNCHANGED <<roomAppSessions, clientVars>>
           ELSE /\ HasFreeCall
                /\ Connect(NewCall, [FreeCall EXCEPT !.op = "generate", !.room = r, !.addr = formattedA])
                /\ out' = <<>>
                /\ UNCHANGED sessionVars
        /\ UNCHANGED <<now, listeners, wire>>
        /\ UNCHANGED <<requestVars, registryVars>>

\* ---------------------------------------------------------------- assembly
\* pending.participantB: the stored object has no such property.
participantB(p) == IF "participantB" \in DOMAIN p THEN p.participantB ELSE UndefinedAddress

\* The size check of createAppSessionWithSignatures.
SignaturesMissing(p) == MapSize(p.signatures) # RequiredSignatures

completeRequest(p) ==
    [req |-> p.requestToSign,
     sig |-> <<MapGet(p.signatures, p.participantA),
               MapGet(p.signatures, participantB(p)),
               p.serverSignature>>]

\* JSON.stringify(completeRequest)
requestString(p) == [completeRequest(p) EXCEPT !.sig = Stringify(@)]

ConnectingCreates == {c \in CallIds : calls[c].op = "create" /\ calls[c].pc = "connecting"}
WireTotal == LET RECURSIVE Sum(_)
                 Sum(S) == IF S = {} THEN 0 ELSE LET x == CHOOSE y \in S : TRUE IN wire[x] + Sum(S \ {x})
             IN  Sum(DOMAIN wire)
MaySend == /\ Len(listeners) + Cardinality(ConnectingCreates) < MaxListeners
           /\ WireTotal + Cardinality(ConnectingCreates) < MaxWire

\* Lines 107-205 for call c of room r holding pending object p: the envelope
\* is written to rpcClient.ws and the call waits for a frame, or throws when
\* the socket is not open.  The call keeps its reference to the object.
SendEnvelope(c, r, p, cs) ==
    IF WsOpen(ws', readyState')
       THEN /\ calls' = [cs EXCEPT ![c] = [FreeCall EXCEPT !.op = "create", !.room = r, !.pc = "waiting",
                                                          !.sock = ws', !.pend = p, !.live = TRUE]]
            /\ listeners' = Append(listeners, [sock |-> ws', method |-> "create_app_session", call |-> c])
            /\ wire' = [wire EXCEPT ![ws'] = @ + 1]
            /\ out' = <<Event("send", "createAppSessionWithSignatures", r, p, requestString(p))>>
       ELSE /\ calls' = [cs EXCEPT ![c] = FreeCall]
            /\ out' = <<Event("throw", "createAppSessionWithSignatures", r, p, "WebSocket not connected")>>
            /\ UNCHANGED <<listeners, wire>>

createAppSessionWithSignatures(r) ==
    LET pending == pendingAppSessions[r]
    IN  /\ IF pending = NoSession
              THEN /\ out' = <<Event("throw", "createAppSessionWithSignatures", r, pending, "No pending app session")>>
                   /\ UNCHANGED <<clientVars, calls, listeners, wire>>
           ELSE IF SignaturesMissing(pending)
              THEN /\ out' = <<Event("throw", "createAppSessionWithSignatures", r, pending, "Not all signatures collected")>>
                   /\ UNCHANGED <<clientVars, calls, listeners, wire>>
           ELSE /\ HasFreeCall
                /\ MaySend
                /\ IF WsOpen(ws, readyState)
                      THEN /\ UNCHANGED clientVars
                           /\ SendEnvelope(NewCall, r, pending, calls)
                      ELSE /\ Connect(NewCall, [FreeCall EXCEPT !.op = "create", !.room = r,
                                                               !.pend = pending, !.live = TRUE])
                           /\ out' = <<>>
                           /\ UNCHANGED <<listeners, wire>>
        /\ UNCHANGED <<now, sessionVars>>
        /\ UNCHANGED <<requestVars, registryVars>>

\* The session createAppSessionWithSignatures stores for pending object p.
ActiveSession(p, appSessionId, t) ==
    [appSessionId  |-> appSessionId,
     participantA  |-> p.participantA,
     participantB  |-> participantB(p),
     serverAddress |-> p.serverAddress,
     betAmount     |-> p.appSessionData.allocations[1].amount,
     createdAt     |-> t,
     moves         |-> <<>>,
     feeHistory    |-> <<[event |-> "session_created", timestamp |-> p.requestToSign[1], feeUsed |-> FALSE,
                          player1Contribution |-> p.appSessionData.allocations[1].amount,
                          player2Contribution |-> p.appSessionData.allocations[1].amount,
                          totalPot |-> toString(parseFloat(p.appSessionData.allocations[1].amount) * 2)],
                         [event |-> "game_started", timestamp |-> t, feeUsed |-> TRUE,
                          appSessionId |-> appSessionId]>>]

\* Lines 208-260: what call c does once its wait resolved with the params of
\* a create_app_session response (id 0: the params carry no session id).
\* st is the storage, the calls and the outputs so far.
Activate(st, c, appSessionId) ==
    LET r == st.calls[c].room
        p == st.calls[c].pend
    IN  IF appSessionId = 0
           THEN [st EXCEPT !.calls = [@ EXCEPT ![c] = FreeCall],
                           !.out = Append(@, Event("throw", "createAppSessionWithSignatures", r, p, "no ID returned"))]
           ELSE [st EXCEPT !.active = [@ EXCEPT ![r] = ActiveSession(p, appSessionId, now)],
                           !.pending = [@ EXCEPT ![r] = NoSession],
                           !.calls = Detach([@ EXCEPT ![c] = FreeCall], r),
                           !.out = Append(@, Event("return", "createAppSessionWithSignatures", r, p, appSessionId))]

\* A rejected wait that also drops the room's pending session.
FailDropsPending(st, c, why) ==
    [st EXCEPT !.pending = [@ EXCEPT ![st.calls[c].room] = NoSession],
               !.calls = Detach([@ EXCEPT ![c] = FreeCall], st.calls[c].room),
               !.out = Append(@, Event("throw", "createAppSessionWithSignatures",
                                       st.calls[c].room, st.calls[c].pend, why))]

\* Lines 262-265: the wait of call c was rejected.
Fail(st, c, why) ==
    [st EXCEPT !.calls = [@ EXCEPT ![c] = FreeCall],
               !.out = Append(@, Event("throw", "createAppSessionWithSignatures",
                                       st.calls[c].room, st.calls[c].pend, why))]

\* ------------------------------------------------- closing and checkpoints
\* The payout of a player in the session data of a close: for the winner it
\* reads totalPot, which is no variable of closeAppSession.
PayoutThrows(session, formattedWinner) ==
    /\ formattedWinner # NullAddress
    /\ formattedWinner \in {session.participantA, session.participantB}

\* The fund distribution of closeAppSession, for a tie and for a winner.
closeAllocations(session, formattedWinner) == <<>>

closeData(session, formattedWinner) ==
    [app_session_id |-> session.appSessionId,
     allocations    |-> closeAllocations(session, formattedWinner),
     feeHistory     |-> session.feeHistory \o <<[event |-> "game_ended", timestamp |-> now,
                                                 winner |-> formattedWinner, serverPayout |-> "0"]>>,
     winner         |-> formattedWinner]

\* The calls that await connect(), each of which registers a listener when
\* it goes on.
MayListen == Len(listeners) + Cardinality({c \in CallIds : calls[c].pc = "connecting"}) < MaxListeners

\* A game-over handler that throws the error of the close on.
GameOverEndsRethrown(why) == IF why \in {"closed", "No app session found"} THEN "return" ELSE "throw"

\* Lines 175-179 of handleGameOverAppSession: the catch logs the error of
\* the close path; the promise of the handler resolves.
GameOverEnds(why) == "return"

\* The end of the handleGameOverAppSession that awaited the close of room r.
Ended(r, winnerEOA, why) == Event(GameOverEnds(why), "handleGameOverAppSession", r, winnerEOA, why)

\* Lines 298-485 of closeAppSession for call c of room r, which holds the
\* session it read at its start: the close envelope is written to
\* rpcClient.ws and the call waits for a frame, or it throws.  sent is what
\* the step has written so far.
closeEnvelope(c, r, session, winnerEOA, cs, sent) ==
    LET formattedWinner == IF winnerEOA = NullAddress THEN NullAddress ELSE getAddress(winnerEOA)
    IN  IF PayoutThrows(session, formattedWinner)
           THEN /\ calls' = [cs EXCEPT ![c] = FreeCall]
                /\ out' = sent \o <<Event("throw", "closeAppSession", r, winnerEOA, "totalPot is not defined"),
                                    Ended(r, winnerEOA, "totalPot is not defined")>>
                /\ UNCHANGED listeners
        ELSE IF WsOpen(ws', readyState')
           THEN /\ calls' = [cs EXCEPT ![c] = [FreeCall EXCEPT !.op = "close", !.room = r, !.pc = "waiting",
                                                              !.sock = ws', !.pend = session, !.addr = winnerEOA]]
                /\ listeners' = Append(listeners, [sock |-> ws', method |-> "close_app_session", call |-> c])
                /\ out' = sent \o <<Event("send", "closeAppSession", r, winnerEOA, closeData(session, formattedWinner))>>
        ELSE /\ calls' = [cs EXCEPT ![c] = FreeCall]
             /\ out' = sent \o <<Event("throw", "closeAppSession", r, winnerEOA, "WebSocket not connected"),
                                 Ended(r, winnerEOA, "WebSocket not connected")>>
             /\ UNCHANGED listeners

\* A close that keeps the session it closed.
ClosedKeepsSession(st, c) ==
    [st EXCEPT !.calls = [@ EXCEPT ![c] = FreeCall],
               !.out = @ \o <<Event("return", "closeAppSession", st.calls[c].room, st.calls[c].addr, "closed"),
                              Ended(st.calls[c].room, st.calls[c].addr, "closed")>>]

\* Lines 487-492: the wait of call c resolved; deleteAppSession(roomId).
Closed(st, c) ==
    [st EXCEPT !.active = [@ EXCEPT ![st.calls[c].room] = NoSession],
               !.calls = [@ EXCEPT ![c] = FreeCall],
               !.out = @ \o <<Event("return", "closeAppSession", st.calls[c].room, st.calls[c].addr, "closed"),
                              Ended(st.calls[c].room, st.calls[c].addr, "closed")>>]

\* Lines 494-497: the wait of call c was rejected; the error is thrown on.
CloseFailed(st, c, why) ==
    [st EXCEPT !.calls = [@ EXCEPT ![c] = FreeCall],
               !.out = @ \o <<Event("throw", "closeAppSession", st.calls[c].room, st.calls[c].addr, why),
                              Ended(st.calls[c].room, st.calls[c].addr, why)>>]

\* The allocations of a checkpoint.
submitAllocations(session) ==
    <<[participant |-> session.participantA, asset |-> "usdc", amount |-> session.betAmount],
      [participant |-> session.participantB, asset |-> "usdc", amount |-> session.betAmount],
      [participant |-> session.serverAddress, asset |-> "usdc", amount |-> "0"]>>

stateData(session) ==
    [app_session_id |-> session.appSessionId,
     allocations    |-> submitAllocations(session),
     feeHistory     |-> session.feeHistory,
     moves          |-> session.moves]

\* A checkpoint whose failure is thrown to its caller.
SubmitEndsThrown(why) == IF why = "submitted" THEN "return" ELSE "throw"

\* Lines 192-197 of submitAppState: the function logs the error of a
\* failed submission and returns.
SubmitEnds(why) == "return"

\* The end of submitAppState in call c: submitted, or the error it logged.
Submitted(st, c, why) ==
    [st EXCEPT !.calls = [@ EXCEPT ![c] = FreeCall],
               !.out = Append(@, Event(SubmitEnds(why), "submitAppState", st.calls[c].room, st.calls[c].pend, why))]

\* Lines 45-190 of submitAppState for call c of room r, which holds the
\* session it read at its start.
submitEnvelope(c, r, session, cs) ==
    IF WsOpen(ws', readyState')
       THEN /\ calls' = [cs EXCEPT ![c] = [FreeCall EXCEPT !.op = "submit", !.room = r, !.pc = "waiting",
                                                          !.sock = ws', !.pend = session]]
            /\ listeners' = Append(listeners, [sock |-> ws', method |-> "submit_app_state", call |-> c])
            /\ out' = <<Event("send", "submitAppState", r, session, stateData(session))>>
       ELSE /\ calls' = [cs EXCEPT ![c] = FreeCall]
            /\ out' = <<Event(SubmitEnds("WebSocket not connected"), "submitAppState", r, session, "WebSocket not connected")>>
            /\ UNCHANGED listeners

\* A listener that is hit by a frame settles its call: a response resolves
\* the wait, an error rejects it.
Settle(st, l, frame) ==
    IF l.method = "close_app_session"
       THEN IF frame.kind = "err" THEN CloseFailed(st, l.call, "Close app session failed")
            ELSE Closed(st, l.call)
    ELSE IF l.method = "submit_app_state"
       THEN Submitted(st, l.call, IF frame.kind = "err" THEN "Submit app state failed" ELSE "submitted")
    ELSE IF frame.kind = "err" THEN Fail(st, l.call, "Create app session failed")
    ELSE Activate(st, l.call, frame.appSessionId)

\* The 'message' event of socket s: every listener of the socket runs, in the
\* order of registration.  A listener whose method matches a response, and
\* every listener on an error, removes itself and settles its call.
RECURSIVE Emit(_, _, _, _)
Emit(ls, s, frame, st) ==
    IF ls = <<>> THEN st
    ELSE LET l == Head(ls)
             hit == l.sock = s /\ (frame.kind = "err" \/ frame.method = l.method)
             settled == IF ~hit \/ l.call = 0 THEN st ELSE Settle(st, l, frame)
             kept == IF hit THEN settled ELSE [settled EXCEPT !.listeners = Append(@, l)]
         IN  Emit(Tail(ls), s, frame, kept)

Storage == [pending |-> pendingAppSessions, active |-> roomAppSessions, calls |-> calls,
            listeners |-> <<>>, out |-> <<>>]

Receive(s, frame) ==
    LET st == Emit(listeners, s, frame, Storage)
    IN  /\ pendingAppSessions' = st.pending
        /\ roomAppSessions' = st.active
        /\ calls' = st.calls
        /\ listeners' = st.listeners
        /\ out' = st.out

\* The ledger answers one of the envelopes it was sent on socket s.
LedgerResponse(s, appSessionId) ==
    /\ readyState[s] = "OPEN"
    /\ wire[s] > 0
    /\ wire' = [wire EXCEPT ![s] = @ - 1]
    /\ Receive(s, [kind |-> "res", method |-> "create_app_session", appSessionId |-> appSessionId])
    /\ UNCHANGED <<now, clientVars>>
    /\ UNCHANGED <<requestVars, registryVars>>

LedgerError(s) ==
    /\ readyState[s] = "OPEN"
    /\ wire[s] > 0
    /\ wire' = [wire EXCEPT ![s] = @ - 1]
    /\ Receive(s, [kind |-> "err", method |-> "error", appSessionId |-> 0])
    /\ UNCHANGED <<now, clientVars>>
    /\ UNCHANGED <<requestVars, registryVars>>

\* The 30 s timer of a waiting call: it rejects; the listener stays.
Timeout(c) ==
    LET st == Fail(Storage, c, "Timeout waiting for app session creation")
    IN  /\ calls[c].pc = "waiting"
        /\ calls[c].op = "create"
        /\ pendingAppSessions' = st.pending
        /\ roomAppSessions' = st.active
        /\ calls' = st.calls
        /\ out' = st.out
        /\ listeners' = [i \in DOMAIN listeners |->
                            IF listeners[i].call = c THEN [listeners[i] EXCEPT !.call = 0] ELSE listeners[i]]
        /\ UNCHANGED <<now, clientVars, wire>>
        /\ UNCHANGED <<requestVars, registryVars>>

\* The ledger answers a close or a checkpoint it was sent on socket s: with
\* a response of the envelope's method, or with an error.
LedgerMethods == {"close_app_session", "submit_app_state"}
LedgerAnswer(s, kind, method) ==
    /\ readyState[s] = "OPEN"
    /\ \E i \in DOMAIN listeners : listeners[i].sock = s /\ listeners[i].method = method
    /\ Receive(s, [kind |-> kind, method |-> IF kind = "err" THEN "error" ELSE method, appSessionId |-> 0])
    /\ UNCHANGED <<now, clientVars, wire>>
    /\ UNCHANGED <<requestVars, registryVars>>

\* The 30 s timer of a waiting close or checkpoint: it rejects; the
\* listener stays.
WaitTimeout(c) ==
    LET st == IF calls[c].op = "close"
                 THEN CloseFailed(Storage, c, "Timeout waiting for session closure")
                 ELSE Submitted(Storage, c, "Timeout waiting for state submission")
    IN  /\ calls[c].pc = "waiting"
        /\ calls[c].op \in {"close", "submit"}
        /\ calls' = st.calls
        /\ out' = st.out
        /\ listeners' = [i \in DOMAIN listeners |->
                            IF listeners[i].call = c THEN [listeners[i] EXCEPT !.call = 0] ELSE listeners[i]]
        /\ UNCHANGED <<now, sessionVars, clientVars, wire>>
        /\ UNCHANGED <<requestVars, registryVars>>

\* ------------------------------------------------------ connection events
\* The call that awaits connect() on socket s.
Callers(s) == {c \in CallIds : calls[c].pc = "connecting" /\ calls[c].sock = s}
OpName(c) == IF calls[c].op = "generate" THEN "generateAppSessionMessage"
             ELSE IF calls[c].op = "close" THEN "closeAppSession"
             ELSE IF calls[c].op = "submit" THEN "submitAppState"
             ELSE "createAppSessionWithSignatures"

\* What the call c that awaited a rejected connect() does: it throws, or
\* logs and returns.
Thrown(c, why) ==
    <<Event(IF calls[c].op = "submit" THEN SubmitEnds(why) ELSE "throw",
            OpName(c), calls[c].room, calls[c].pend, why)>>
    \o (IF calls[c].op = "close" THEN <<Ended(calls[c].room, calls[c].addr, why)>> ELSE <<>>)

RECURSIVE ThrownAll(_, _)
ThrownAll(C, why) ==
    IF C = {} THEN <<>>
    ELSE LET c == CHOOSE d \in C : \A e \in C : calls[d].sock <= calls[e].sock
         IN  Thrown(c, why) \o ThrownAll(C \ {c}, why)

\* The connect() of the sockets H rejected: ensureConnected throws in the
\* calls that await them.
RejectedAll(H, why) ==
    LET C == {c \in CallIds : calls[c].pc = "connecting" /\ calls[c].sock \in H}
    IN  /\ calls' = [c \in CallIds |-> IF c \in C THEN FreeCall ELSE calls[c]]
        /\ out' = ThrownAll(C, why)

\* connect() rejected: ensureConnected throws in the call that awaits it.
Rejected(s, why) == RejectedAll({s}, why)

\* 'open': the handshake of authenticateWithSessionKey starts.
SocketOpen(s) ==
    /\ readyState[s] = "CONNECTING"
    /\ authSock' = [authSock EXCEPT ![s] = ws]
    /\ IF ws # s /\ readyState[ws] = "CONNECTING"
          THEN /\ readyState' = [readyState EXCEPT ![s] = "OPEN", ![ws] = "CLOSING"]
               /\ authState' = [authState EXCEPT ![s] = "failed"]
               /\ status' = "auth_failed"
               /\ Rejected(s, "WebSocket is not open")
          ELSE /\ readyState' = [readyState EXCEPT ![s] = "OPEN"]
               /\ authState' = [authState EXCEPT ![s] = "pending"]
               /\ status' = "authenticating"
               /\ out' = <<>>
               /\ UNCHANGED calls
    /\ UNCHANGED <<now, sessionVars, ws, sessionKey, listeners, wire>>
    /\ UNCHANGED <<requestVars, registryVars>>

\* handleAuthResponse is a 'message' listener of socket s: from the start of
\* the handshake until it resolved, was rejected or timed out.
AuthListening(s) == authState[s] = "pending"

\* The handshakes that run on socket s, and those of them that listen.
Handshakes(s) == {h \in DOMAIN authState : authSock[h] = s /\ authState[h] # "none"}
Hearing(s) == {h \in Handshakes(s) : AuthListening(h)}

\* The handshake of a socket's own 'open' is the first that went on it; the
\* continuations of the 'open' handlers run in the order of the listeners.
FirstHeard(s) == IF s \in Hearing(s) THEN s ELSE CHOOSE h \in Hearing(s) : TRUE
LastHeard(s) == IF Hearing(s) \ {s} # {} THEN Hearing(s) \ {s} ELSE Hearing(s)

\* The calls whose connect() has resolved and that have not gone on yet.
Unresumed == {c \in CallIds : calls[c].pc = "connecting" /\ authState[calls[c].sock] = "done"}

\* The end of handleJoinRoom: the proposal goes to the connection of the
\* host of the room object the handler holds, when that connection is open.
SignatureRequest(room, socks) ==
    IF room.host \in DOMAIN room.connections /\ socks[room.connections[room.host]].readyState = OPEN
       THEN <<Event("deliver", "handleJoinRoom", room.id, room.connections[room.host], "appSession:signatureRequest")>>
       ELSE <<>>

\* connect() resolved on socket s: the call that awaited it goes on.
Resume(s) ==
    IF Callers(s) = {}
       THEN /\ out' = <<>>
            /\ UNCHANGED <<sessionVars, calls, listeners, wire>>
       ELSE LET c == CHOOSE c \in Callers(s) : TRUE
                r == calls[c].room
            IN  IF calls[c].op = "generate"
                   THEN /\ pendingAppSessions' =
                             [pendingAppSessions EXCEPT ![r] = StoredPending(calls[c].addr, sessionKey', now)]
                        /\ calls' = Detach([calls EXCEPT ![c] = FreeCall], r)
                        /\ out' = <<Event("return", "generateAppSessionMessage", r, TRUE,
                                          Proposal(StoredPending(calls[c].addr, sessionKey', now)))>>
                                   \o (IF calls[c].notify THEN SignatureRequest(calls[c].robj, sockets) ELSE <<>>)
                        /\ UNCHANGED <<roomAppSessions, listeners, wire>>
                ELSE IF calls[c].op = "close"
                   THEN /\ closeEnvelope(c, r, calls[c].pend, calls[c].addr, calls, <<>>)
                        /\ UNCHANGED <<sessionVars, wire>>
                ELSE IF calls[c].op = "submit"
                   THEN /\ submitEnvelope(c, r, calls[c].pend, calls)
                        /\ UNCHANGED <<sessionVars, wire>>
                   ELSE /\ SendEnvelope(c, r, calls[c].pend, calls)
                        /\ UNCHANGED sessionVars

\* The next call whose connect() resolved goes on, before any other event
\* is handled.
ResumeNext ==
    /\ Unresumed # {}
    /\ UNCHANGED <<now, clientVars>>
    /\ LET c == CHOOSE d \in Unresumed : \A e \in Unresumed : calls[d].sock <= calls[e].sock
       IN  Resume(calls[c].sock)
    /\ UNCHANGED <<requestVars, registryVars>>

\* An auth_verify frame arrives on socket s.  While the handshake listens,
\* the key of this handshake becomes the session key and connect()
\* resolves; after it, nobody hears the frame.
AuthVerify(s) ==
    /\ readyState[s] \in {"OPEN", "CLOSING"}
    /\ \E h \in Handshakes(s) : authState[h] \in {"pending", "failed", "timedout"}
    /\ UNCHANGED <<now, ws, readyState, authSock>>
    /\ IF Hearing(s) # {}
          THEN /\ authState' = [h \in DOMAIN authState |-> IF h \in Hearing(s) THEN "done" ELSE authState[h]]
               /\ \E k \in LastHeard(s) : sessionKey' = k
               /\ status' = "connected"
               /\ Resume(FirstHeard(s))
          ELSE /\ out' = <<Event("ignore", "auth_verify", 0, s, "no listener")>>
               /\ UNCHANGED <<authState, sessionKey, status, sessionVars, calls, listeners, wire>>
    /\ UNCHANGED <<requestVars, registryVars>>

\* The catch of the 'open' handler: the handshake of socket s was rejected.
\* The listener of the handshake is gone, the status becomes auth_failed,
\* rpcClient.ws is closed and connect() rejects.
FailedAll(H, how, why) ==
    /\ authState' = [h \in DOMAIN authState |-> IF h \in H THEN how ELSE authState[h]]
    /\ status' = "auth_failed"
    /\ readyState' = IF ws # 0 /\ readyState[ws] \in {"CONNECTING", "OPEN"}
                        THEN [readyState EXCEPT ![ws] = "CLOSING"] ELSE readyState
    /\ RejectedAll(H, why)
    /\ UNCHANGED <<now, sessionVars, ws, authSock, sessionKey, listeners, wire>>
    /\ UNCHANGED <<requestVars, registryVars>>

AuthFailed(s, how, why) == FailedAll({s}, how, why)

\* An error reply arrives on socket s during the handshakes that run on it.
AuthReject(s) ==
    /\ readyState[s] \in {"OPEN", "CLOSING"}
    /\ Hearing(s) # {}
    /\ FailedAll(Hearing(s), "failed", "Authentication failed")

\* The 10 s timer of the handshake of socket s: neither auth_verify nor an
\* error has arrived.
AuthTimeout(s) ==
    /\ authState[s] = "pending"
    /\ AuthFailed(s, "timedout", "Authentication timeout")

\* 'error' then 'close' of a socket that never opened.
SocketError(s) ==
    /\ authState[s] = "none"
    /\ readyState[s] \in {"CONNECTING", "CLOSING"}
    /\ readyState' = [readyState EXCEPT ![s] = "CLOSED"]
    /\ status' = "disconnected"
    /\ Rejected(s, "WebSocket error")
    /\ UNCHANGED <<now, sessionVars, ws, authState, authSock, sessionKey, listeners, wire>>
    /\ UNCHANGED <<requestVars, registryVars>>

\* 'close' of a socket that was open: its listeners hear nothing more.
SocketClose(s) ==
    /\ authState[s] # "none"
    /\ readyState[s] \in {"OPEN", "CLOSING"}
    /\ readyState' = [readyState EXCEPT ![s] = "CLOSED"]
    /\ status' = "disconnected"
    /\ listeners' = SelectSeq(listeners, LAMBDA l : l.sock # s)
    /\ wire' = [wire EXCEPT ![s] = 0]
    /\ out' = <<>>
    /\ UNCHANGED <<now, sessionVars, ws, authState, authSock, sessionKey, calls>>
    /\ UNCHANGED <<requestVars, registryVars>>

\* ------------------------------------------------------ request correlation
RequestIds == 1..MaxRequests
Methods == {"get_channels"}
RPCMethodError == "error"

\* handleMessage is a 'message' listener of socket s: connect() registers it
\* when the handshake resolved.
Handling(s) == authState[s] = "done"

\* A correlation that settles the oldest entry, whatever the frame's id.
SettledOldest(k) ==
    IF pendingRequests = {} THEN {}
    ELSE {CHOOSE x \in pendingRequests : \A y \in pendingRequests : x <= y}

\* The pending entries that handleMessage settles for a frame with request
\* id k (0: the frame carries none).
Settled(k) == IF k \in pendingRequests THEN {k} ELSE {}

\* sendRequest(method): the id is taken before the request is signed; with
\* no session signer the signing throws and the entry is not kept.
sendRequest(m) ==
    /\ IF ~WsOpen(ws, readyState)
          THEN /\ out' = <<Event("throw", "sendRequest", 0, 0, "WebSocket not connected")>>
               /\ UNCHANGED requestVars
          ELSE /\ nextRequestId <= MaxRequests
               /\ nextRequestId' = nextRequestId + 1
               /\ IF sessionKey = 0
                     THEN /\ pendingRequests' = pendingRequests \ {nextRequestId}
                          /\ out' = <<Event("throw", "sendRequest", 0, nextRequestId, "signer is null")>>
                     ELSE /\ pendingRequests' = pendingRequests \cup {nextRequestId}
                          /\ out' = <<Event("send", "sendRequest", 0, nextRequestId, m)>>
    /\ UNCHANGED <<now, sessionVars, clientVars, calls, listeners, wire, registryVars>>

\* A response frame [k, m, params] arrives on socket s.  The listeners of
\* the submissions hear it first (they were registered on the socket before
\* or after handleMessage; none of them changes pendingRequests), then
\* handleMessage settles the entry of its request id.
handleMessage(s, k, m) ==
    LET st == Emit(listeners, s, [kind |-> "res", method |-> m, appSessionId |-> 0], Storage)
        how == IF m = RPCMethodError THEN "throw" ELSE "return"
    IN  /\ readyState[s] = "OPEN"
        /\ Handling(s)
        /\ pendingAppSessions' = st.pending
        /\ roomAppSessions' = st.active
        /\ calls' = st.calls
        /\ listeners' = st.listeners
        /\ pendingRequests' = pendingRequests \ Settled(k)
        /\ out' = st.out \o (IF Settled(k) = {} THEN <<>>
                              ELSE <<Event(how, "sendRequest", 0, CHOOSE x \in Settled(k) : TRUE, m)>>)
        /\ UNCHANGED <<now, clientVars, wire, nextRequestId, registryVars>>

\* A timer that rejects and leaves the entry in the map.
AfterTimeoutKept(reqs, k) == reqs

\* this.pendingRequests.delete(requestId) of the timer of sendRequest.
AfterTimeout(reqs, k) == reqs \ {k}

\* The 10 s timer of request k: an entry that is still pending is removed
\* and rejected.
RequestTimeout(k) ==
    /\ k \in pendingRequests
    /\ pendingRequests' = AfterTimeout(pendingRequests, k)
    /\ out' = <<Event("throw", "sendRequest", 0, k, "Request timeout")>>
    /\ UNCHANGED <<now, sessionVars, clientVars, calls, listeners, wire, nextRequestId, registryVars>>

\* ---------------------------------------------------------------- registry
\* The room manager of snake.ts, the handlers of the players' messages and
\* the players' sockets.

\* What the handlers read of a game state: whether the game is over, its
\* winner, and whether the state holds the scores of snakes.player1 and
\* snakes.player2.  The object createRoom stores ({}) has none of them.
EmptyGameState == [isGameOver |-> FALSE, winner |-> "undefined", snakes |-> FALSE]

\* The room object createRoom stores under the id of the socket.
NewRoom(k) ==
    [kind |-> "room", id |-> k, host |-> NullAddress, connections |-> EmptyMap,
     gameState |-> EmptyGameState, isReady |-> TRUE, playereoa |-> UndefinedAddress]

\* Map.delete
MapDelete(m, k) == [x \in (DOMAIN m) \ {k} |-> m[x]]

\* A room object is replaced or deleted: the handlers that hold a reference
\* to it keep the object as it was.
DetachRoom(cs, k) ==
    [c \in CallIds |-> IF cs[c].notify /\ cs[c].room = k THEN [cs[c] EXCEPT !.rlive = FALSE] ELSE cs[c]]

\* A room object is changed in place: the handlers that hold a reference to
\* it see the change.
ShareRoom(cs, k, room) ==
    [c \in CallIds |-> IF cs[c].notify /\ cs[c].room = k /\ cs[c].rlive
                          THEN [cs[c] EXCEPT !.robj = room] ELSE cs[c]]

\* The room manager, the sockets and the references to rooms, as the value
\* its functions take and give back; result is what the function returned,
\* sent what it wrote to the players' sockets.
Registry ==
    [rooms |-> rooms, addressToRoom |-> addressToRoom, sockets |-> sockets,
     calls |-> calls, result |-> [success |-> TRUE], sent |-> <<>>]

\* rooms.has(k): k is a socket id, or an id as a player sent it.
HasRoom(rg, k) == k \in RoomKeys /\ rg.rooms[k] # NoRoom

createRoom(rg, c) ==
    LET roomId == rg.sockets[c].id
    IN  [rg EXCEPT !.rooms = [@ EXCEPT ![roomId] = NewRoom(roomId)],
                   !.calls = DetachRoom(@, roomId),
                   !.result = roomId]

\* A room that joinRoom takes for empty of other bindings.
JoinRefusedNever(rg, roomId, formattedEoa) == FALSE

\* The check of joinRoom for a player that is in another room.
JoinRefused(rg, roomId, formattedEoa) ==
    formattedEoa \in DOMAIN rg.addressToRoom /\ rg.addressToRoom[formattedEoa] # roomId

\* The room object after joinRoom's assignments.
Joined(room, formattedEoa, c) ==
    [room EXCEPT !.host = formattedEoa, !.connections = MapSet(@, formattedEoa, c)]

\* joinRoom(roomId, eoa, ws) for an eoa that is an address.
joinRoom(rg, roomId, eoa, c) ==
    LET formattedEoa == getAddress(eoa)
    IN  IF ~HasRoom(rg, roomId)
           THEN [rg EXCEPT !.result = [success |-> FALSE, error |-> "Room not found"]]
        ELSE IF JoinRefused(rg, roomId, formattedEoa)
           THEN [rg EXCEPT !.result = [success |-> FALSE, error |-> "Player already in another room"]]
        ELSE LET room == Joined(rg.rooms[roomId], formattedEoa, c)
             IN  [rg EXCEPT !.rooms = [@ EXCEPT ![roomId] = room],
                            !.calls = ShareRoom(@, roomId, room),
                            !.addressToRoom = MapSet(@, formattedEoa, roomId),
                            !.sockets = [@ EXCEPT ![c] = [@ EXCEPT !.id = roomId]],
                            !.result = [success |-> TRUE, role |-> "host", roomId |-> roomId,
                                        isRoomReady |-> room.isReady]]

\* leaveRoom(eoa) for an eoa that is an address.  The room is deleted unless
\* its property playereoa, which only handleStartGame sets, is truthy.
leaveRoom(rg, eoa) ==
    LET formattedEoa == getAddress(eoa)
    IN  IF formattedEoa \notin DOMAIN rg.addressToRoom
           THEN [rg EXCEPT !.result = [success |-> FALSE, error |-> "Player not in any room"]]
        ELSE LET roomId == rg.addressToRoom[formattedEoa]
                 left == [rg.rooms[roomId] EXCEPT
                             !.connections = MapDelete(@, formattedEoa),
                             !.host = IF @ = formattedEoa THEN NullAddress ELSE @]
                 unbound == [rg EXCEPT !.addressToRoom = MapDelete(@, formattedEoa),
                                       !.result = [success |-> TRUE, roomId |-> roomId]]
             IN  IF rg.rooms[roomId] = NoRoom THEN unbound
                 ELSE IF left.playereoa = UndefinedAddress
                    THEN [unbound EXCEPT !.rooms = [@ EXCEPT ![roomId] = NoRoom],
                                         !.calls = DetachRoom(ShareRoom(@, roomId, left), roomId)]
                 ELSE [unbound EXCEPT !.rooms = [@ EXCEPT ![roomId] = left],
                                      !.calls = ShareRoom(@, roomId, left)]

\* The addresses of a connections map, in the order of their ids.
RECURSIVE Occupants(_)
Occupants(m) ==
    IF DOMAIN m = {} THEN <<>>
    ELSE LET a == CHOOSE x \in DOMAIN m : \A y \in DOMAIN m : x.id <= y.id
         IN  <<a>> \o Occupants(MapDelete(m, a))

\* A broadcast that writes to every connection of the room.
ReceivesAlways(rg, c) == TRUE

\* The check of broadcastToRoom for an open socket.
Receives(rg, c) == rg.sockets[c].readyState = OPEN

\* broadcastToRoom(roomId, type, data)
broadcastToRoom(rg, roomId, type) ==
    IF ~HasRoom(rg, roomId) THEN rg
    ELSE LET m == rg.rooms[roomId].connections
             to == SelectSeq(Occupants(m), LAMBDA a : Receives(rg, m[a]))
         IN  [rg EXCEPT !.sent = @ \o [i \in DOMAIN to |-> Event("deliver", "broadcastToRoom", roomId, m[to[i]], type)]]

\* A close that leaves the room in the registry.
RoomsAfterCloseKept(rs, roomId) == rs

\* rooms.delete(roomId) of closeRoom.
RoomsAfterClose(rs, roomId) == [rs EXCEPT ![roomId] = NoRoom]

\* closeRoom(roomId)
closeRoom(rg, roomId) ==
    IF ~HasRoom(rg, roomId) THEN rg
    ELSE LET m == rg.rooms[roomId].connections
             closed == {m[a] : a \in DOMAIN m}
         IN  [rg EXCEPT !.sockets = [c \in ConnectionIds |->
                                        IF c \in closed THEN [@[c] EXCEPT !.readyState = CLOSED] ELSE @[c]],
                        !.rooms = RoomsAfterClose(@, roomId),
                        !.calls = DetachRoom(@, roomId)]

\* The registry takes the value rg.
Store(rg) ==
    /\ rooms' = rg.rooms
    /\ addressToRoom' = rg.addressToRoom
    /\ sockets' = rg.sockets

\* What the room manager's functions are called with: the ids of the
\* sockets that were given one, and the undefined id of the others.
RegistryKeys == {UndefinedId} \cup Rooms
JoinAddresses == {EOA(1), EOA(2), BadAddress}
MessageTypes == {"room:state"}

\* The calls of the room manager's functions.
CreateRoom(c) ==
    LET rg == createRoom(Registry, c)
    IN  /\ Store(rg)
        /\ calls' = rg.calls
        /\ out' = <<Event("return", "createRoom", rg.result, c, rg.result)>>
        /\ UNCHANGED <<now, sessionVars, clientVars, listeners, wire, requestVars, connections, ID, gameLoops, closeTimers>>

JoinRoom(roomId, eoa, c) ==
    LET rg == joinRoom(Registry, roomId, eoa, c)
    IN  /\ IF ~isAddress(eoa)
              THEN /\ out' = <<Event("throw", "joinRoom", roomId, eoa, "invalid address")>>
                   /\ UNCHANGED <<rooms, addressToRoom, sockets, calls>>
              ELSE /\ Store(rg)
                   /\ calls' = rg.calls
                   /\ out' = <<Event("return", "joinRoom", roomId, [eoa |-> eoa, ws |-> c], rg.result)>>
        /\ UNCHANGED <<now, sessionVars, clientVars, listeners, wire, requestVars, connections, ID, gameLoops, closeTimers>>

LeaveRoom(eoa) ==
    LET rg == leaveRoom(Registry, eoa)
    IN  /\ IF ~isAddress(eoa)
              THEN /\ out' = <<Event("throw", "leaveRoom", 0, eoa, "invalid address")>>
                   /\ UNCHANGED <<rooms, addressToRoom, sockets, calls>>
              ELSE /\ Store(rg)
                   /\ calls' = rg.calls
                   /\ out' = <<Event("return", "leaveRoom", 0, eoa, rg.result)>>
        /\ UNCHANGED <<now, sessionVars, clientVars, listeners, wire, requestVars, connections, ID, gameLoops, closeTimers>>

BroadcastToRoom(roomId, type) ==
    LET rg == broadcastToRoom(Registry, roomId, type)
    IN  /\ Store(rg)
        /\ calls' = rg.calls
        /\ out' = <<Event("call", "broadcastToRoom", roomId, type, HasRoom(Registry, roomId))>> \o rg.sent
        /\ UNCHANGED <<now, sessionVars, clientVars, listeners, wire, requestVars, connections, ID, gameLoops, closeTimers>>

CloseRoom(roomId) ==
    LET rg == closeRoom(Registry, roomId)
    IN  /\ Store(rg)
        /\ calls' = rg.calls
        /\ out' = <<Event("call", "closeRoom", roomId, Registry.rooms[roomId], HasRoom(Registry, roomId))>>
        /\ UNCHANGED <<now, sessionVars, clientVars, listeners, wire, requestVars, connections, ID, gameLoops, closeTimers>>

\* A player's socket closes.
PlayerClose(c) ==
    /\ sockets[c].readyState = OPEN
    /\ sockets' = [sockets EXCEPT ![c] = [@ EXCEPT !.readyState = CLOSED]]
    /\ out' = <<>>
    /\ UNCHANGED <<now, sessionVars, clientVars, calls, listeners, wire, requestVars>>
    /\ UNCHANGED <<rooms, addressToRoom, connections, ID, gameLoops, closeTimers>>

\* --------------------------------------------------------------- handlers
\* The room id of a join request: none (undefined), a string in the form
\* of a UUID, or anything else.  No socket id is a string.
UuidRoomId == -1
InvalidRoomId == -2
PayloadRoomIds == {UndefinedId, UuidRoomId, InvalidRoomId}
PayloadAddresses == {EOA(1), LowerEOA(1), BadAddress, UndefinedAddress}

validateJoinRoomPayload(eoa, roomId) ==
    IF eoa = UndefinedAddress
       THEN [success |-> FALSE, isCreating |-> FALSE, error |-> "Ethereum address is required"]
    ELSE IF ~isAddress(eoa)
       THEN [success |-> FALSE, isCreating |-> FALSE, error |-> "Invalid Ethereum address format"]
    ELSE IF roomId = UndefinedId
       THEN [success |-> TRUE, isCreating |-> TRUE, error |-> ""]
    ELSE IF roomId # UuidRoomId
       THEN [success |-> FALSE, isCreating |-> FALSE, error |-> "Invalid room ID format"]
    ELSE [success |-> TRUE, isCreating |-> FALSE, error |-> ""]

sendError(c, roomId, code) == <<Event("error", "handleJoinRoom", roomId, c, code)>>

\* connections.has(eoa)
AlreadyConnected(eoa) == eoa \in DOMAIN connections

\* Lines 78-111 of handleJoinRoom: the proposal for the host of the room,
\* and the request for its signature.  rg is the registry after the join,
\* room the room object the handler holds.
RequestSignature(rg, roomId, room) ==
    LET host == room.host
        pending == ReusedPending(roomId)
        stored == StoredPending(host, sessionKey, now)
    IN  IF pending # NoSession
           THEN /\ out' = rg.sent \o <<Event("return", "generateAppSessionMessage", roomId, TRUE, Proposal(pending))>>
                               \o SignatureRequest(room, rg.sockets)
                /\ calls' = rg.calls
                /\ UNCHANGED <<sessionVars, clientVars>>
        ELSE IF WsOpen(ws, readyState)
           THEN IF sessionKey = 0
                   THEN /\ out' = rg.sent \o <<Event("throw", "generateAppSessionMessage", roomId, TRUE, "sessionKey is null")>>
                        /\ calls' = rg.calls
                        /\ UNCHANGED <<sessionVars, clientVars>>
                   ELSE /\ pendingAppSessions' = [pendingAppSessions EXCEPT ![roomId] = stored]
                        /\ calls' = Detach(rg.calls, roomId)
                        /\ out' = rg.sent \o <<Event("return", "generateAppSessionMessage", roomId, TRUE, Proposal(stored))>>
                                       \o SignatureRequest(room, rg.sockets)
                        /\ UNCHANGED <<roomAppSessions, clientVars>>
        ELSE /\ HasFreeCall
             /\ ConnectWith(rg.calls, NewCall,
                            [FreeCall EXCEPT !.op = "generate", !.room = roomId, !.addr = host,
                                             !.notify = TRUE, !.robj = room, !.rlive = TRUE])
             /\ out' = rg.sent
             /\ UNCHANGED sessionVars

handleJoinRoom(c, eoa, payloadRoomId) ==
    LET validation == validateJoinRoomPayload(eoa, payloadRoomId)
        created == IF validation.isCreating THEN createRoom(Registry, c) ELSE Registry
        roomId == IF validation.isCreating THEN created.result ELSE payloadRoomId
        joined == joinRoom(created, roomId, eoa, c)
        told == IF validation.isCreating
                   THEN [joined EXCEPT !.sent = @ \o <<Event("deliver", "handleJoinRoom", roomId, c, "room:created")>>]
                   ELSE joined
        announced == broadcastToRoom(broadcastToRoom(told, roomId, "room:state"), roomId, "room:ready")
    IN  /\ sockets[c].readyState = OPEN
        /\ IF ~validation.success
              THEN /\ out' = sendError(c, payloadRoomId, "INVALID_PAYLOAD")
                   /\ UNCHANGED <<rooms, addressToRoom, sockets, connections, calls, sessionVars, clientVars>>
           ELSE IF AlreadyConnected(eoa)
              THEN /\ out' = sendError(c, payloadRoomId, "ALREADY_CONNECTED")
                   /\ UNCHANGED <<rooms, addressToRoom, sockets, connections, calls, sessionVars, clientVars>>
           ELSE IF ~joined.result.success
              THEN /\ Store(joined)
                   /\ calls' = joined.calls
                   /\ out' = sendError(c, payloadRoomId, "JOIN_FAILED")
                   /\ UNCHANGED <<connections, sessionVars, clientVars>>
           ELSE /\ Store(announced)
                /\ connections' = MapSet(connections, eoa, [ws |-> c, roomId |-> roomId])
                /\ RequestSignature(announced, roomId, announced.rooms[roomId])
        /\ UNCHANGED <<now, listeners, wire, requestVars, ID, gameLoops, closeTimers>>

\* handleStartGame(ws): createRoom returns the id of the room, not the room,
\* so on a socket that has no room yet the handler throws when it writes a
\* property of what it got, after the room was stored.  The game state of a
\* stored room ({}) is truthy and is kept.
handleStartGame(c) ==
    LET id == IF sockets[c].id = UndefinedId THEN ID ELSE sockets[c].id
        named == [Registry EXCEPT !.sockets = [@ EXCEPT ![c] = [@ EXCEPT !.id = id]]]
        mine == {e \in DOMAIN connections : connections[e].ws = c}
        playerEoa == IF mine = {} THEN NullAddress ELSE CHOOSE e \in mine : TRUE
    IN  /\ sockets[c].readyState = OPEN
        /\ id \in RegistryKeys
        /\ ID' = IF sockets[c].id = UndefinedId THEN ID + 1 ELSE ID
        /\ IF ~HasRoom(named, id)
              THEN LET rg == createRoom(named, c)
                   IN  /\ Store(rg)
                       /\ calls' = rg.calls
                       /\ out' = <<Event("throw", "handleStartGame", id, c, "TypeError")>>
                       /\ UNCHANGED gameLoops
              ELSE LET room == [named.rooms[id] EXCEPT !.playereoa = IF playerEoa = NullAddress THEN @ ELSE playerEoa]
                       set == [named EXCEPT !.rooms = [@ EXCEPT ![id] = room],
                                            !.calls = ShareRoom(@, id, room)]
                       rg == broadcastToRoom(broadcastToRoom(set, id, "game:started"), id, "room:state")
                   IN  /\ Store(rg)
                       /\ calls' = rg.calls
                       /\ gameLoops' = gameLoops \cup {id}
                       /\ out' = <<Event("call", "handleStartGame", id, c, playerEoa)>> \o rg.sent
        /\ UNCHANGED <<now, sessionVars, clientVars, listeners, wire, requestVars, connections, closeTimers>>

\* The room id and the vector of a move request: no id, the id of a socket
\* or a string; a vector that names a direction or one that names none.
MoveRoomIds == {UndefinedId, UuidRoomId} \cup Rooms
MoveVectors == {"UP", "none"}

\* processDirectionChange(roomId, payload, null): the game state of a room
\* is an object and so truthy; changeDirection formats the address it is
\* given, and handleMove gives it null.
processDirectionChange(rg, roomId, vector) ==
    IF vector = "none" THEN [success |-> FALSE, error |-> "Invalid move vector"]
    ELSE IF ~HasRoom(rg, roomId) THEN [success |-> FALSE, error |-> "Room not found"]
    ELSE [success |-> FALSE, error |-> "throws"]

\* handleMove(ws, payload): an answer to the sender, nothing, or the
\* exception of changeDirection.
handleMove(c, payloadRoomId, vector) ==
    LET roomId == IF payloadRoomId # UndefinedId THEN payloadRoomId ELSE sockets[c].id
        result == processDirectionChange(Registry, roomId, vector)
    IN  /\ sockets[c].readyState = OPEN
        /\ out' = IF roomId = UndefinedId
                     THEN <<Event("error", "handleMove", roomId, c, "INVALID_PAYLOAD")>>
                  ELSE IF result.error = "Room not found"
                     THEN <<Event("error", "handleMove", roomId, c, "MOVE_FAILED")>>
                  ELSE IF result.error = "throws"
                     THEN <<Event("throw", "handleMove", roomId, c, "invalid address")>>
                  ELSE <<Event("ignore", "handleMove", roomId, c, result.error)>>
        /\ UNCHANGED <<now, sessionVars, clientVars, calls, listeners, wire, requestVars, registryVars>>

\* closeAppSession(roomId, winnerEOA) up to its wait: it returns when the
\* room has no session, connects when the socket is not open, and else
\* sends the close.  cs and sent are the calls and what the step wrote.
closeAppSession(r, winnerEOA, cs, sent) ==
    LET session == roomAppSessions[r]
    IN  IF session = NoSession
           THEN /\ calls' = cs
                /\ out' = sent \o <<Event("return", "closeAppSession", r, winnerEOA, "No active app session"),
                                    Ended(r, winnerEOA, "closed")>>
                /\ UNCHANGED <<clientVars, listeners>>
           ELSE /\ HasFreeCall
                /\ MayListen
                /\ IF WsOpen(ws, readyState)
                      THEN /\ UNCHANGED clientVars
                           /\ closeEnvelope(NewCall, r, session, winnerEOA, cs, sent)
                      ELSE /\ ConnectWith(cs, NewCall, [FreeCall EXCEPT !.op = "close", !.room = r,
                                                                       !.pend = session, !.addr = winnerEOA])
                           /\ out' = sent
                           /\ UNCHANGED listeners

\* handleGameOverAppSession(roomId, gameState) for a room that exists: the
\* winner is the host when the state names player1, and nobody otherwise;
\* the session is closed when the storage has one for the room.  No room
\* object has an appId.
handleGameOverAppSession(r, gameState, cs, sent) ==
    LET winnerEOA == IF gameState.winner = "player1" THEN rooms[r].host ELSE NullAddress
    IN  IF roomAppSessions[r] # NoSession
           THEN closeAppSession(r, winnerEOA, cs, sent)
           ELSE /\ calls' = cs
                /\ out' = sent \o <<Event("skip", "handleGameOverAppSession", r, winnerEOA, "No app session found"),
                                    Ended(r, winnerEOA, "No app session found")>>
                /\ UNCHANGED <<clientVars, listeners>>

\* formatGameOverMessage reads the scores of snakes.player1 and
\* snakes.player2 and throws on a state that has none.
formatGameOverMessage(gameState) ==
    IF gameState.snakes THEN [winner |-> gameState.winner] ELSE [winner |-> "TypeError"]

\* The interval of the detection loop of room roomId.  It ends when the room
\* is gone.  When the game is over it ends, broadcasts game:over, starts
\* the close of the session without awaiting it and schedules closeRoom;
\* the exception of formatGameOverMessage leaves the callback after the
\* interval was cleared.
gameLoopTick(roomId) ==
    LET over == HasRoom(Registry, roomId) /\ rooms[roomId].gameState.isGameOver
        told == broadcastToRoom(Registry, roomId, "game:over")
    IN  /\ roomId \in gameLoops
        /\ IF ~over
              THEN /\ gameLoops' = IF HasRoom(Registry, roomId) THEN gameLoops ELSE gameLoops \ {roomId}
                   /\ out' = <<Event("call", "gameLoop", roomId, 0, HasRoom(Registry, roomId))>>
                   /\ UNCHANGED <<clientVars, calls, listeners, closeTimers>>
           ELSE IF formatGameOverMessage(rooms[roomId].gameState).winner = "TypeError"
              THEN /\ gameLoops' = gameLoops \ {roomId}
                   /\ out' = <<Event("throw", "gameLoop", roomId, 0, "TypeError")>>
                   /\ UNCHANGED <<clientVars, calls, listeners, closeTimers>>
           ELSE /\ gameLoops' = gameLoops \ {roomId}
                /\ closeTimers[roomId] < MaxTimers
                /\ closeTimers' = [closeTimers EXCEPT ![roomId] = @ + 1]
                /\ handleGameOverAppSession(roomId, rooms[roomId].gameState, calls,
                                            <<Event("detect", "gameLoop", roomId, 0, rooms[roomId].gameState.winner)>>
                                               \o told.sent)
        /\ UNCHANGED <<now, sessionVars, wire, requestVars>>
        /\ UNCHANGED <<rooms, addressToRoom, connections, sockets, ID>>

\* The timer the detection scheduled for room roomId: closeRoom(roomId).
closeRoomTimer(roomId) ==
    LET rg == closeRoom(Registry, roomId)
    IN  /\ closeTimers[roomId] > 0
        /\ closeTimers' = [closeTimers EXCEPT ![roomId] = @ - 1]
        /\ Store(rg)
        /\ calls' = rg.calls
        /\ out' = <<Event("call", "closeRoomTimer", roomId, rooms[roomId], HasRoom(Registry, roomId))>>
        /\ UNCHANGED <<now, sessionVars, clientVars, listeners, wire, requestVars, connections, ID, gameLoops>>

\* What a step of the game leaves in the room: a game that goes on, or one
\* that is over with a winner or without, in a state with or without the
\* scores of two snakes.
EngineResults ==
    {[isGameOver |-> o, winner |-> w, snakes |-> n] :
        o \in BOOLEAN, w \in {"null", "player1", "player2"}, n \in BOOLEAN}

\* updateGameState(roomId): the game of a room that exists takes a step,
\* unless it is over.
updateGameState(roomId, result) ==
    LET room == [rooms[roomId] EXCEPT !.gameState = result]
    IN  /\ HasRoom(Registry, roomId)
        /\ ~rooms[roomId].gameState.isGameOver
        /\ result.isGameOver \/ result.winner = "null"
        /\ rooms' = [rooms EXCEPT ![roomId] = room]
        /\ calls' = ShareRoom(calls, roomId, room)
        /\ out' = <<Event("return", "updateGameState", roomId, 0, result)>>
        /\ UNCHANGED <<now, sessionVars, clientVars, listeners, wire, requestVars>>
        /\ UNCHANGED <<addressToRoom, connections, sockets, ID, gameLoops, closeTimers>>

\* submitAppState(roomId) up to its wait.
submitAppState(r) ==
    LET session == roomAppSessions[r]
    IN  /\ IF session = NoSession
              THEN /\ out' = <<Event("return", "submitAppState", r, session, "No active session")>>
                   /\ UNCHANGED <<clientVars, calls, listeners>>
              ELSE /\ HasFreeCall
                   /\ MayListen
                   /\ IF WsOpen(ws, readyState)
                         THEN /\ UNCHANGED clientVars
                              /\ submitEnvelope(NewCall, r, session, calls)
                         ELSE /\ Connect(NewCall, [FreeCall EXCEPT !.op = "submit", !.room = r, !.pend = session])
                              /\ out' = <<>>
                              /\ UNCHANGED listeners
        /\ UNCHANGED <<now, sessionVars, wire>>
        /\ UNCHANGED <<requestVars, registryVars>>

\* A move log whose numbers start at 0.
moveNumberFromZero(moves) == Len(moves)

\* Line 294 of addMoveToSession: moveNumber is session.moves.length + 1.
moveNumber(moves) == Len(moves) + 1

\* addMoveToSession(roomId, playerEOA, direction), with Date.now() as the
\* timestamp: without a session it returns; getAddress throws on what is no
\* address; the move is pushed on the moves of the stored session object,
\* which the suspended calls that read the session hold too.
addMoveToSession(roomId, playerEOA, direction) ==
    LET session == roomAppSessions[roomId]
        move == [player |-> getAddress(playerEOA), direction |-> direction,
                 timestamp |-> now, moveNumber |-> moveNumber(session.moves)]
        moved == [session EXCEPT !.moves = Append(@, move)]
    IN  /\ IF session = NoSession
              THEN /\ out' = <<Event("return", "addMoveToSession", roomId, playerEOA, "No active session")>>
                   /\ UNCHANGED <<roomAppSessions, calls>>
           ELSE IF ~isAddress(playerEOA)
              THEN /\ out' = <<Event("throw", "addMoveToSession", roomId, playerEOA, "invalid address")>>
                   /\ UNCHANGED <<roomAppSessions, calls>>
           ELSE /\ Len(session.moves) < MaxMoves
                /\ roomAppSessions' = [roomAppSessions EXCEPT ![roomId] = moved]
                /\ calls' = [c \in CallIds |->
                                IF calls[c].op \in {"close", "submit"} /\ calls[c].pend = session
                                   THEN [calls[c] EXCEPT !.pend = moved] ELSE calls[c]]
                /\ out' = <<Event("return", "addMoveToSession", roomId, playerEOA, move)>>
        /\ UNCHANGED <<now, pendingAppSessions, clientVars, listeners, wire>>
        /\ UNCHANGED <<requestVars, registryVars>>

\* ----------------------------------------------------------- specification
Next ==
    \/ Tick
    \/ \E r \in Rooms, a \in HostInputs : generateAppSessionMessage(r, a)
    \/ \E r \in Rooms, a \in AddressInputs, s \in SignatureInputs : addAppSessionSignature(r, a, s)
    \/ \E r \in Rooms : createAppSessionWithSignatures(r)
    \/ \E s \in SocketIds : SocketOpen(s)
    \/ \E s \in SocketIds : AuthVerify(s)
    \/ \E s \in SocketIds : AuthReject(s)
    \/ \E s \in SocketIds : AuthTimeout(s)
    \/ \E s \in SocketIds : SocketError(s)
    \/ \E s \in SocketIds : SocketClose(s)
    \/ \E s \in SocketIds, id \in 0..MaxSessionIds : LedgerResponse(s, id)
    \/ \E s \in SocketIds : LedgerError(s)
    \/ \E c \in CallIds : Timeout(c)

Spec == Init /\ [][Next]_vars

\* The settlement connection shared by two rooms, with the requests that are
\* correlated by id: every room is proposed for the same player and signed
\* with well-formed signatures.
SharedSigners == {EOA(1), EOA(2)}
NextShared ==
    \/ \E r \in SharedRooms : generateAppSessionMessage(r, EOA(1))
    \/ \E r \in SharedRooms, a \in SharedSigners : addAppSessionSignature(r, a, GoodSig)
    \/ \E r \in SharedRooms : createAppSessionWithSignatures(r)
    \/ \E s \in SocketIds : SocketOpen(s)
    \/ \E s \in SocketIds : AuthVerify(s)
    \/ \E s \in SocketIds : AuthReject(s)
    \/ \E s \in SocketIds : AuthTimeout(s)
    \/ \E s \in SocketIds : SocketError(s)
    \/ \E s \in SocketIds : SocketClose(s)
    \/ \E s \in SocketIds, id \in SessionIds : LedgerResponse(s, id)
    \/ \E s \in SocketIds : LedgerError(s)
    \/ \E c \in CallIds : Timeout(c)
    \/ \E m \in Methods : sendRequest(m)
    \/ \E s \in SocketIds, k \in 0..MaxRequests, m \in Methods \cup {RPCMethodError} : handleMessage(s, k, m)
    \/ \E k \in RequestIds : RequestTimeout(k)

SpecShared == Init /\ [][NextShared]_vars

\* The room registry and the handlers of the players' messages, over a
\* settlement connection that connect() has established: the socket is
\* open and its handshake has set the session key.
InitConnected ==
    /\ ws = 1
    /\ readyState = [s \in SocketIds |-> IF s = 1 THEN "OPEN" ELSE "UNUSED"]
    /\ authState = [s \in SocketIds |-> IF s = 1 THEN "done" ELSE "none"]
    /\ authSock = [s \in SocketIds |-> IF s = 1 THEN 1 ELSE 0]
    /\ status = "connected"
    /\ sessionKey = 1
    /\ pendingRequests = {}
    /\ nextRequestId = 1

InitRooms == InitStorage /\ InitConnected /\ InitRegistry

NextRooms ==
    \/ \E c \in ConnectionIds : CreateRoom(c)
    \/ \E k \in RegistryKeys, a \in JoinAddresses, c \in ConnectionIds : JoinRoom(k, a, c)
    \/ \E a \in JoinAddresses : LeaveRoom(a)
    \/ \E k \in RegistryKeys, t \in MessageTypes : BroadcastToRoom(k, t)
    \/ \E k \in RegistryKeys : CloseRoom(k)
    \/ \E c \in ConnectionIds : PlayerClose(c)
    \/ \E c \in ConnectionIds : handleStartGame(c)
    \/ \E k \in RegistryKeys : gameLoopTick(k)

SpecRooms == InitRooms /\ [][NextRooms]_vars

\* The handlers of the players' messages and the timers of the server, from
\* the start of the server: the first proposal connects the settlement
\* client.
NextServer ==
    \/ \E c \in ConnectionIds, a \in PayloadAddresses, k \in PayloadRoomIds : handleJoinRoom(c, a, k)
    \/ \E c \in ConnectionIds, k \in MoveRoomIds, v \in MoveVectors : handleMove(c, k, v)
    \/ \E c \in ConnectionIds : handleStartGame(c)
    \/ \E k \in RegistryKeys : gameLoopTick(k)
    \/ \E k \in RegistryKeys : CloseRoom(k)
    \/ \E c \in ConnectionIds : PlayerClose(c)
    \/ \E s \in SocketIds : SocketOpen(s)
    \/ \E s \in SocketIds : AuthVerify(s)
    \/ \E s \in SocketIds : AuthTimeout(s)
    \/ \E s \in SocketIds : SocketClose(s)

SpecServer == Init /\ [][NextServer]_vars

\* A game from its start to the end of its room.  Connection 1 has started
\* a game, which gave its socket the id 1, and has created room 1 for
\* player 1; the room has a session that was created for its proposal, or
\* none.  The settlement connection that created the session is lost: the
\* client holds no open socket (a closed one is modelled as none) and
\* keeps its session key.
GameRoom == 1
GameSession == ActiveSession(StoredPending(EOA(1), 1, 1), 1, 1)
InitGame ==
    /\ now = 1
    /\ pendingAppSessions = [r \in RoomKeys |-> NoSession]
    /\ roomAppSessions \in {[r \in RoomKeys |-> NoSession],
                            [r \in RoomKeys |-> IF r = GameRoom THEN GameSession ELSE NoSession]}
    /\ calls = [c \in CallIds |-> FreeCall]
    /\ listeners = <<>>
    /\ wire = [s \in SocketIds |-> 0]
    /\ out = <<>>
    /\ ws = 0
    /\ readyState = [s \in SocketIds |-> "UNUSED"]
    /\ authState = [s \in SocketIds |-> "none"]
    /\ authSock = [s \in SocketIds |-> 0]
    /\ status = "disconnected"
    /\ sessionKey = 1
    /\ pendingRequests = {}
    /\ nextRequestId = 1
    /\ rooms = [k \in RoomKeys |-> IF k = GameRoom THEN Joined(NewRoom(GameRoom), EOA(1), 1) ELSE NoRoom]
    /\ addressToRoom = MapSet(EmptyMap, EOA(1), GameRoom)
    /\ connections = MapSet(EmptyMap, EOA(1), [ws |-> 1, roomId |-> GameRoom])
    /\ sockets = [c \in ConnectionIds |-> [readyState |-> OPEN, id |-> IF c = 1 THEN GameRoom ELSE UndefinedId]]
    /\ ID = 2
    /\ gameLoops = {}
    /\ closeTimers = [k \in RoomKeys |-> 0]

NextGame ==
    \/ \E c \in ConnectionIds : handleStartGame(c)
    \/ \E k \in Rooms, g \in EngineResults : updateGameState(k, g)
    \/ \E k \in Rooms : gameLoopTick(k)
    \/ \E k \in Rooms : closeRoomTimer(k)
    \/ \E k \in Rooms : submitAppState(k)
    \/ \E k \in Rooms, a \in HostInputs, v \in MoveVectors : addMoveToSession(k, a, v)
    \/ \E s \in SocketIds, kind \in {"res", "err"}, m \in LedgerMethods : LedgerAnswer(s, kind, m)
    \/ \E c \in CallIds : WaitTimeout(c)
    \/ \E s \in SocketIds : SocketOpen(s)
    \/ \E s \in SocketIds : AuthVerify(s)
    \/ \E s \in SocketIds : AuthTimeout(s)
    \/ \E s \in SocketIds : SocketClose(s)

SpecGame == InitGame /\ [][NextGame]_vars

\* The client when its callers do not wait for each other: every
\* ensureConnected of a client that is not open calls connect(), and every
\* connect() makes a socket, up to MaxOverlap of them.  One room is proposed
\* for one player, signed with well-formed signatures and assembled.
OverlapSockets == 1..MaxOverlap
OverlapRoom == 1
InitOverlap ==
    /\ now = 1
    /\ pendingAppSessions = [r \in RoomKeys |-> NoSession]
    /\ roomAppSessions = [r \in RoomKeys |-> NoSession]
    /\ calls = [c \in CallIds |-> FreeCall]
    /\ listeners = <<>>
    /\ wire = [s \in OverlapSockets |-> 0]
    /\ out = <<>>
    /\ ws = 0
    /\ readyState = [s \in OverlapSockets |-> "UNUSED"]
    /\ authState = [s \in OverlapSockets |-> "none"]
    /\ authSock = [s \in OverlapSockets |-> 0]
    /\ status = "disconnected"
    /\ sessionKey = 0
    /\ pendingRequests = {}
    /\ nextRequestId = 1
    /\ InitRegistry

\* No resolved connect() has a caller that has yet to go on.
Quiet == Unresumed = {}

NextOverlap ==
    \/ ResumeNext
    \/ Quiet /\ generateAppSessionMessage(OverlapRoom, EOA(1))
    \/ Quiet /\ \E a \in SharedSigners : addAppSessionSignature(OverlapRoom, a, GoodSig)
    \/ Quiet /\ createAppSessionWithSignatures(OverlapRoom)
    \/ Quiet /\ \E s \in OverlapSockets : SocketOpen(s)
    \/ Quiet /\ \E s \in OverlapSockets : AuthVerify(s)
    \/ Quiet /\ \E s \in OverlapSockets : AuthTimeout(s)
    \/ Quiet /\ \E s \in OverlapSockets : SocketError(s)
    \/ Quiet /\ \E s \in OverlapSockets : SocketClose(s)
    \/ Quiet /\ \E s \in OverlapSockets : LedgerResponse(s, 1)
    \/ Quiet /\ \E s \in OverlapSockets : LedgerError(s)
    \/ Quiet /\ \E c \in CallIds : Timeout(c)

SpecOverlap == InitOverlap /\ [][NextOverlap]_vars

\* The exchanges of the client and their timers.  The room of a started game
\* has a session and, proposed again, a pending session that both players
\* signed; the settlement connection is lost.  The pending session is
\* assembled, the session is checkpointed and closed, and requests are sent,
\* while the ledger answers or not and the connection may drop.  Every timer
\* that was set fires in the end (setTimeout of sendRequest, of the three
\* waits and of the handshake), and a socket that is being established
\* opens or fails.
SignedProposal ==
    [StoredPending(EOA(1), 1, 1) EXCEPT
        !.signatures = MapSet(MapSet(EmptyMap, getAddress(EOA(1)), GoodSig), getAddress(EOA(2)), GoodSig)]

InitSettle ==
    /\ now = 1
    /\ pendingAppSessions = [r \in RoomKeys |-> IF r = GameRoom THEN SignedProposal ELSE NoSession]
    /\ roomAppSessions = [r \in RoomKeys |-> IF r = GameRoom THEN GameSession ELSE NoSession]
    /\ calls = [c \in CallIds |-> FreeCall]
    /\ listeners = <<>>
    /\ wire = [s \in SocketIds |-> 0]
    /\ out = <<>>
    /\ InitClient
    /\ rooms = [k \in RoomKeys |-> IF k = GameRoom THEN Joined(NewRoom(GameRoom), EOA(1), 1) ELSE NoRoom]
    /\ addressToRoom = MapSet(EmptyMap, EOA(1), GameRoom)
    /\ connections = MapSet(EmptyMap, EOA(1), [ws |-> 1, roomId |-> GameRoom])
    /\ sockets = [c \in ConnectionIds |-> [readyState |-> OPEN, id |-> IF c = 1 THEN GameRoom ELSE UndefinedId]]
    /\ ID = 2
    /\ gameLoops = {}
    /\ closeTimers = [k \in RoomKeys |-> 0]

closeAppSessionCall(r, winnerEOA) ==
    /\ closeAppSession(r, winnerEOA, calls, <<>>)
    /\ UNCHANGED <<now, sessionVars, wire>>
    /\ UNCHANGED <<requestVars, registryVars>>

NextSettle ==
    \/ createAppSessionWithSignatures(GameRoom)
    \/ submitAppState(GameRoom)
    \/ closeAppSessionCall(GameRoom, NullAddress)
    \/ \E m \in Methods : sendRequest(m)
    \/ \E s \in SocketIds, k \in 0..MaxRequests, m \in Methods \cup {RPCMethodError} : handleMessage(s, k, m)
    \/ \E k \in RequestIds : RequestTimeout(k)
    \/ \E s \in SocketIds : SocketOpen(s)
    \/ \E s \in SocketIds : AuthVerify(s)
    \/ \E s \in SocketIds : AuthReject(s)
    \/ \E s \in SocketIds : AuthTimeout(s)
    \/ \E s \in SocketIds : SocketError(s)
    \/ \E s \in SocketIds : SocketClose(s)
    \/ \E s \in SocketIds : LedgerResponse(s, 1)
    \/ \E s \in SocketIds : LedgerError(s)
    \/ \E s \in SocketIds, kind \in {"res", "err"}, m \in LedgerMethods : LedgerAnswer(s, kind, m)
    \/ \E c \in CallIds : Timeout(c)
    \/ \E c \in CallIds : WaitTimeout(c)

TimersFire ==
    /\ \A k \in RequestIds : WF_vars(RequestTimeout(k))
    /\ \A c \in CallIds : WF_vars(Timeout(c))
    /\ \A c \in CallIds : WF_vars(WaitTimeout(c))
    /\ \A s \in SocketIds : WF_vars(AuthTimeout(s))
    /\ \A s \in SocketIds : WF_vars(SocketOpen(s) \/ SocketError(s))

SpecSettle == InitSettle /\ [][NextSettle]_vars /\ TimersFire

TypeOK ==
    /\ now \in 1..MaxTime
    /\ ws \in 0..MaxSockets
    /\ sessionKey \in 0..MaxSockets
    /\ status \in {"connected", "connecting", "disconnected", "authenticating", "auth_failed"}
    /\ Len(listeners) <= MaxListeners

\* ------------------------------------------------------------------ claims
\* The players of a definition: every participant but the last, the service.
Players(p) == {p.appDefinition.participants[i] : i \in 1..(Len(p.appDefinition.participants) - 1)}
PlayersSigned(p) == Players(p) \subseteq DOMAIN p.signatures
SignatureCount(r) == IF pendingAppSessions[r] = NoSession THEN 0
                     ELSE MapSize(pendingAppSessions[r].signatures)
Did(e, ev, op, r) == e.ev = ev /\ e.op = op /\ e.room = r

\* C1: Scenario A.  In a room with one player, once the player's well-formed
\* signature is the one collected signature, addAppSessionSignature reports
\* the quorum as reached; an assembly is refused for missing signatures only
\* when a player of the definition has not signed; and when an assembly
\* returns a session id, the room's ActiveSession has that id and the
\* room's PendingSession is gone.
C1_ScenarioA ==
    \A r \in Rooms : \A i \in DOMAIN out :
        LET p == pendingAppSessions[r]
            e == out[i]
        IN  /\ ( /\ Did(e, "return", "addAppSessionSignature", r)
                 /\ e.arg = GoodSig
                 /\ p # NoSession
                 /\ DOMAIN p.signatures = {p.participantA}
                 /\ Players(p) = {p.participantA} )
               => e.val = TRUE
            /\ ( /\ Did(e, "throw", "createAppSessionWithSignatures", r)
                 /\ e.val = "Not all signatures collected" )
               => ~PlayersSigned(e.arg)
            /\ Did(e, "return", "createAppSessionWithSignatures", r)
               => /\ roomAppSessions[r] # NoSession
                  /\ roomAppSessions[r].appSessionId = e.val
                  /\ p = NoSession

\* C2: propose is idempotent.  A call of generateAppSessionMessage for a room
\* that has a PendingSession changes neither the storage nor the connection,
\* sends nothing, and (given an address) returns the stored definition,
\* nonce, request tuple, session data and participants.
C2_ProposeIdempotent ==
    [][\A r \in Rooms :
          ( /\ pendingAppSessions[r] # NoSession
            /\ \E a \in HostInputs : generateAppSessionMessage(r, a) )
          => /\ Len(out') = 1
             /\ out'[1].op = "generateAppSessionMessage"
             /\ out'[1].room = r
             /\ out'[1].ev # "send"
             /\ UNCHANGED <<pendingAppSessions, roomAppSessions, clientVars, calls, listeners, wire>>
             /\ out'[1].arg
                => /\ out'[1].ev = "return"
                   /\ out'[1].val.appDefinition = pendingAppSessions[r].appDefinition
                   /\ out'[1].val.appDefinition.nonce = pendingAppSessions[r].nonce
                   /\ out'[1].val.requestToSign = pendingAppSessions[r].requestToSign
                   /\ out'[1].val.appSessionData = pendingAppSessions[r].appSessionData
                   /\ out'[1].val.participants =
                        <<pendingAppSessions[r].participantA, pendingAppSessions[r].serverAddress>>
      ]_vars

\* C2 witness: a proposal was returned for a room whose PendingSession has
\* already collected a signature, after the clock moved on from its nonce.
C2_Witness ==
    \E r \in Rooms :
        /\ Len(out) = 1
        /\ Did(out[1], "return", "generateAppSessionMessage", r)
        /\ pendingAppSessions[r] # NoSession
        /\ SignatureCount(r) >= 1
        /\ pendingAppSessions[r].nonce < now

\* C3: for every stored proposal, the number of player signatures that
\* collection and assembly require is the number of participants of the
\* definition minus one.
C3_RequiredCount ==
    \A r \in Rooms :
        pendingAppSessions[r] # NoSession
        => RequiredSignatures = Len(pendingAppSessions[r].appDefinition.participants) - 1

\* C4: an assembly called while the signature of a player of the definition
\* is missing fails: it throws, sends nothing and changes no storage.
C4_AssemblyNeedsEveryPlayer ==
    [][\A r \in Rooms :
          ( /\ createAppSessionWithSignatures(r)
            /\ pendingAppSessions[r] # NoSession
            /\ ~PlayersSigned(pendingAppSessions[r]) )
          => /\ Len(out') = 1
             /\ out'[1].ev = "throw"
             /\ UNCHANGED <<pendingAppSessions, roomAppSessions, calls, listeners, wire>>
      ]_vars

\* C5: the signature list of every submitted envelope has one defined entry
\* per participant of the definition, in the definition's order: the
\* players' collected signatures first, the service signature last.
C5_EnvelopeOrder ==
    \A i \in DOMAIN out :
        out[i].ev = "send"
        => LET parts == out[i].arg.appDefinition.participants
               sig == out[i].val.sig
           IN  /\ Len(sig) = Len(parts)
               /\ \A j \in DOMAIN sig : sig[j].t = "string"
               /\ \A j \in 1..(Len(parts) - 1) : sig[j] = MapGet(out[i].arg.signatures, parts[j])
               /\ sig[Len(sig)] = out[i].arg.serverSignature

\* C6 as claimed: a signature that is not a string, lacks the 0x prefix or
\* has the wrong length makes addAppSessionSignature return false, and the
\* number of collected signatures is the same after the call as before.
Malformed(s) == s.t # "string" \/ ~s.prefix \/ s.len # SignatureLength
Unprefixed(s) == s.t # "string" \/ s.len = 0 \/ ~s.prefix
C7_SignaturesWithinParticipants ==
    \A r \in Rooms :
        pendingAppSessions[r] # NoSession
        => SignatureCount(r) <= Len(pendingAppSessions[r].appDefinition.participants)

\* C8: an ActiveSession is stored for a room only by an assembly of the
\* room's PendingSession, and that PendingSession holds a signature of every
\* player of its definition.
C8_ActiveOnlyFromQuorum ==
    [][\A r \in Rooms :
          (roomAppSessions'[r] # roomAppSessions[r] /\ roomAppSessions'[r] # NoSession)
          => \E i \in DOMAIN out' :
                /\ Did(out'[i], "return", "createAppSessionWithSignatures", r)
                /\ out'[i].val = roomAppSessions'[r].appSessionId
                /\ PlayersSigned(out'[i].arg)
      ]_vars

\* C9: when an error frame or the timeout ends the wait of an assembly, the
\* assembly throws, no ActiveSession is stored and the PendingSession keeps
\* its nonce, request tuple and signatures: the envelope of a retry is the
\* envelope that was submitted.
Waiting == {c \in CallIds : calls[c].pc = "waiting"}
C9_FailureKeepsPending ==
    [][( \/ \E s \in SocketIds : LedgerError(s)
         \/ \E c \in CallIds : Timeout(c) )
       => /\ UNCHANGED <<pendingAppSessions, roomAppSessions>>
          /\ \A r \in Rooms : pendingAppSessions[r] # NoSession
                => requestString(pendingAppSessions'[r]) = requestString(pendingAppSessions[r])
          /\ \A c \in Waiting :
                calls'[c] # calls[c]
                => /\ calls'[c].pc = "free"
                   /\ \E i \in DOMAIN out' :
                         Did(out'[i], "throw", "createAppSessionWithSignatures", calls[c].room)
      ]_vars

\* C9 witness: an assembly has just failed on an error frame and the room's
\* PendingSession is there with the signatures the assembly requires.
C9_Witness ==
    \E r \in Rooms :
        /\ Len(out) = 1
        /\ Did(out[1], "throw", "createAppSessionWithSignatures", r)
        /\ out[1].val = "Create app session failed"
        /\ pendingAppSessions[r] # NoSession
        /\ ~SignaturesMissing(pendingAppSessions[r])
        /\ roomAppSessions[r] = NoSession

\* C10: a room never holds a PendingSession and an ActiveSession at once.
C10_NeverBoth ==
    \A r \in Rooms : ~(pendingAppSessions[r] # NoSession /\ roomAppSessions[r] # NoSession)

\* C11: one response frame on the shared connection completes at most one
\* waiting submission, and at most one room takes its session id from it.
C11_FrameResolvesOne ==
    [][\A s \in SocketIds, id \in SessionIds :
          LedgerResponse(s, id)
          => /\ Cardinality({c \in Waiting : calls'[c].pc # "waiting"}) <= 1
             /\ Cardinality({r \in SharedRooms : roomAppSessions'[r] # roomAppSessions[r]}) <= 1
      ]_vars

\* C12: when the settlement socket closes, every pending request id and
\* every wait of a submission on that socket is rejected in that step.
C12_CloseRejectsPending ==
    [][\A s \in SocketIds :
          SocketClose(s)
          => /\ pendingRequests' = {}
             /\ \A c \in Waiting : calls[c].sock = s => calls'[c].pc = "free"
      ]_vars

\* C13: a timeout rejects and deregisters: the request id is no entry of
\* pendingRequests after its timer, and no 'message' listener is left on a
\* socket for a submission whose wait the timer has rejected.
C13_TimeoutDeregisters ==
    [][/\ \A k \in RequestIds : RequestTimeout(k) => k \notin pendingRequests'
       /\ \A i \in DOMAIN listeners' : listeners'[i].call # 0
      ]_vars

\* C14: request ids are handed out in strictly increasing order, every
\* pending id is one that was handed out, and a response frame with id k
\* settles the entry k and removes it, and nothing else; with an id that is
\* not pending, it changes nothing of the requests.
C14_RequestIds ==
    [][/\ nextRequestId' >= nextRequestId
       /\ \A k \in pendingRequests' : k < nextRequestId'
       /\ \A k \in pendingRequests' \ pendingRequests :
             k = nextRequestId /\ nextRequestId' = k + 1
       /\ \A s \in SocketIds, k \in 0..MaxRequests, m \in Methods \cup {RPCMethodError} :
             handleMessage(s, k, m)
             => /\ pendingRequests' = pendingRequests \ {k}
                /\ nextRequestId' = nextRequestId
                /\ {out'[i].arg : i \in {j \in DOMAIN out' : out'[j].op = "sendRequest"}}
                      = pendingRequests \cap {k}
      ]_vars

\* C14 witness: the response to the second request has just resolved it
\* while the first request is still pending.
C14_Witness ==
    /\ Len(out) = 1
    /\ out[1].op = "sendRequest"
    /\ out[1].ev = "return"
    /\ out[1].arg = 2
    /\ pendingRequests = {1}
    /\ nextRequestId = 3

\* C15: the status changes only from disconnected to connecting, from
\* connecting to authenticating, from authenticating to connected or to
\* auth_failed, and to disconnected when a socket closes; it becomes
\* connected only by an auth_verify that the handshake hears, which sets the
\* session key.
StatusPath == {<<"disconnected", "connecting">>, <<"connecting", "authenticating">>,
               <<"authenticating", "connected">>, <<"authenticating", "auth_failed">>}
C15_StatusPath ==
    [][/\ status' # status
          => \/ <<status, status'>> \in StatusPath
             \/ /\ status' = "disconnected"
                /\ \E s \in SocketIds : SocketClose(s) \/ SocketError(s)
       /\ (status' = "connected" /\ status # "connected")
          => \E s \in SocketIds : AuthVerify(s) /\ AuthListening(s) /\ sessionKey' = s
      ]_vars

\* C16: the timeout of a handshake rejects connect() once, sets the status
\* to auth_failed and removes the listener; afterwards that handshake is
\* neither rejected again nor resolved, and an auth_verify on the socket it
\* ran on changes neither the status nor the session key.
C16_HandshakeTimeout ==
    [][\A h \in DOMAIN authState :
          /\ AuthTimeout(h)
             => /\ status' = "auth_failed"
                /\ ~AuthListening(h)'
                /\ Cardinality({i \in DOMAIN out' : out'[i].ev = "throw"}) = Cardinality(Callers(h))
                /\ \A c \in Callers(h) : calls'[c].pc = "free"
          /\ authState[h] = "timedout"
             => /\ authState'[h] = "timedout"
                /\ ~AuthTimeout(h)
                /\ AuthVerify(authSock[h]) => UNCHANGED <<status, sessionKey>>
      ]_vars

\* The connections a room's map holds, and the events of a kind in out.
Bound(room) == {room.connections[a] : a \in DOMAIN room.connections}
Events(o, ev) == {i \in DOMAIN o : o[i].ev = ev}

\* C17: joinRoom for an address that is bound to a different room fails,
\* and leaves the rooms with their connections, the bindings of the
\* addresses and the sockets as they were.
C17_JoinOtherRoomRefused ==
    [][\A k \in RegistryKeys, a \in JoinAddresses, c \in ConnectionIds :
          ( /\ JoinRoom(k, a, c)
            /\ isAddress(a)
            /\ getAddress(a) \in DOMAIN addressToRoom
            /\ addressToRoom[getAddress(a)] # k )
          => /\ Len(out') = 1
             /\ out'[1].ev = "return"
             /\ out'[1].val.success = FALSE
             /\ UNCHANGED <<rooms, addressToRoom, sockets, connections>>
      ]_vars

\* C17 witness: joinRoom has just refused an address of another room, in a
\* room that exists.
C17_Witness ==
    /\ Len(out) = 1
    /\ out[1].op = "joinRoom"
    /\ out[1].ev = "return"
    /\ out[1].val = [success |-> FALSE, error |-> "Player already in another room"]
    /\ rooms[out[1].room] # NoRoom

\* C18: a request to join over a new connection, by an address that is
\* bound to the room the request is for, is answered without an error;
\* the room then holds the new connection for the address, for the same
\* occupants, and the bindings of the addresses are unchanged.
C18_RejoinReplacesConnection ==
    [][\A c \in ConnectionIds, a \in PayloadAddresses :
          LET fa == getAddress(a)
              r == addressToRoom[fa]
          IN  ( /\ handleJoinRoom(c, a, UndefinedId)
                /\ isAddress(a)
                /\ fa \in DOMAIN addressToRoom
                /\ r = sockets[c].id
                /\ HasRoom(Registry, r)
                /\ fa \in DOMAIN rooms[r].connections
                /\ rooms[r].connections[fa] # c )
              => /\ Events(out', "error") = {}
                 /\ DOMAIN rooms'[r].connections = DOMAIN rooms[r].connections
                 /\ rooms'[r].connections[fa] = c
                 /\ addressToRoom' = addressToRoom
      ]_vars

\* C19: broadcastToRoom writes the message once to the connection of every
\* occupant whose socket is open and to no other socket, throws nothing,
\* writes nothing for a room that does not exist, and changes nothing of
\* the registry.
C19_BroadcastToOpen ==
    [][\A k \in RegistryKeys, t \in MessageTypes :
          BroadcastToRoom(k, t)
          => LET room == rooms[k]
                 open == IF room = NoRoom THEN {}
                         ELSE {a \in DOMAIN room.connections : sockets[room.connections[a]].readyState = OPEN}
                 got == Events(out', "deliver")
             IN  /\ Cardinality(got) = Cardinality(open)
                 /\ {out'[i].arg : i \in got} = {room.connections[a] : a \in open}
                 /\ \A i \in got : out'[i].val = t /\ out'[i].room = k
                 /\ Events(out', "throw") = {}
                 /\ UNCHANGED registryVars
      ]_vars

\* C19 witness: a broadcast to a room with two occupants, one of them on a
\* closed socket, has just written one message.
C19_Witness ==
    /\ Len(out) = 2
    /\ out[1].op = "broadcastToRoom"
    /\ out[2].ev = "deliver"
    /\ rooms[out[1].room] # NoRoom
    /\ \E a, b \in DOMAIN rooms[out[1].room].connections :
          /\ sockets[rooms[out[1].room].connections[a]].readyState = OPEN
          /\ sockets[rooms[out[1].room].connections[b]].readyState = CLOSED

\* C20: closeRoom of a room that exists closes the socket of every
\* connection of the room, removes the room and leaves the other rooms and
\* sockets alone; closeRoom of a room that does not exist changes nothing.
C20_CloseRoom ==
    [][\A k \in RegistryKeys :
          CloseRoom(k)
          => IF rooms[k] = NoRoom
                THEN UNCHANGED registryVars
                ELSE /\ rooms' = [rooms EXCEPT ![k] = NoRoom]
                     /\ \A c \in Bound(rooms[k]) : sockets'[c].readyState = CLOSED
                     /\ \A c \in ConnectionIds \ Bound(rooms[k]) : sockets'[c] = sockets[c]
                     /\ \A c \in ConnectionIds : sockets'[c].id = sockets[c].id
      ]_vars

\* C20 witness: closeRoom has just closed a room that held a connection
\* whose socket was open.
C20_Witness ==
    /\ Len(out) = 1
    /\ out[1].op = "closeRoom"
    /\ out[1].val = TRUE
    /\ Bound(out[1].arg) # {}
    /\ rooms[out[1].room] = NoRoom
    /\ \A c \in Bound(out[1].arg) : sockets[c].readyState = CLOSED

\* C21: a join or move request that is answered with an error leaves the
\* rooms, the bindings of the addresses and the connections map as they
\* were; a create request whose join fails leaves no room behind.
C21_ErrorLeavesRegistry ==
    [][\A c \in ConnectionIds :
          ( /\ \/ \E a \in PayloadAddresses, k \in PayloadRoomIds : handleJoinRoom(c, a, k)
               \/ \E k \in MoveRoomIds, v \in MoveVectors : handleMove(c, k, v)
            /\ Events(out', "error") # {} )
          => UNCHANGED <<rooms, addressToRoom, connections>>
      ]_vars

\* The calls of closeAppSession for room k that have not settled: they
\* await the connection or the answer of the ledger.
Closing(k) == {c \in CallIds : calls[c].op = "close" /\ calls[c].room = k /\ calls[c].pc # "free"}

\* C22: the closeRoom that follows a terminal detection runs only when the
\* closeAppSession of the room has settled: no room is deleted while the
\* close of its session is outstanding.
C22_CloseAfterSettled ==
    [][\A k \in Rooms : closeRoomTimer(k) => Closing(k) = {}]_vars

\* The game of room k is over, and the occupants of a room whose sockets
\* are open.
Over(k) == HasRoom(Registry, k) /\ rooms[k].gameState.isGameOver
OpenOccupants(room) == {c \in Bound(room) : sockets[c].readyState = OPEN}

C24_DetectedOnce ==
    [][\A k \in Rooms :
          (gameLoopTick(k) /\ closeTimers[k] > 0)
          => /\ Events(out', "detect") = {}
             /\ closeTimers'[k] = closeTimers[k]
             /\ Closing(k)' = Closing(k)
      ]_vars

\* The phase of room k as the registry and the timers show it: 4 (closed)
\* without a room, 3 (closing) with a game that is over or a closeRoom that
\* is scheduled, 2 (playing) with a detection loop, else 1 (ready: a room
\* is created ready).
Rank(k) ==
    IF ~HasRoom(Registry, k) THEN 4
    ELSE IF Over(k) \/ closeTimers[k] > 0 THEN 3
    ELSE IF k \in gameLoops THEN 2
    ELSE 1

\* C25: the phase of a room never moves back, and a startGame message for a
\* room that is closing (its end was detected and its closeRoom is
\* scheduled) or closed neither creates the room again nor starts its
\* detection loop again.
C25_ForwardOnly ==
    [][\A k \in Rooms :
          /\ Rank(k)' >= Rank(k)
          /\ ((closeTimers[k] > 0 \/ ~HasRoom(Registry, k)) /\ \E c \in ConnectionIds : handleStartGame(c))
                => /\ HasRoom(Registry, k)' = HasRoom(Registry, k)
                   /\ k \in gameLoops' => k \in gameLoops
      ]_vars

\* The events of operation op in a sequence of events.
EventsOf(o, op) == {i \in DOMAIN o : o[i].op = op}

\* C26: submitAppState never throws: whatever ends it (the response, an
\* error frame, its timeout, a socket that is not open, a connect that
\* failed), it returns; and the steps in which it starts, sends or ends
\* leave the sessions with their move logs and the rooms with their game
\* states as they were.
C26_SubmitNeverThrows ==
    [][\A i \in EventsOf(out', "submitAppState") :
          /\ out'[i].ev \in {"send", "return"}
          /\ roomAppSessions' = roomAppSessions
          /\ rooms' = rooms
      ]_vars

\* C26 witness: a checkpoint of room 1 has just ended by its timeout; the
\* room keeps its session and its game goes on.
C26_Witness ==
    /\ \E i \in EventsOf(out, "submitAppState") :
          /\ out[i].ev = "return"
          /\ out[i].val = "Timeout waiting for state submission"
          /\ out[i].room = GameRoom
    /\ roomAppSessions[GameRoom] = GameSession
    /\ GameRoom \in gameLoops
    /\ HasRoom(Registry, GameRoom)
    /\ ~Over(GameRoom)


\* The allocation vector of the proposal that created session: the one
\* generateAppSessionMessage wrote for its participantA.
CreationAllocations(session) ==
    appSessionData(session.participantA, session.serverAddress, session.createdAt).allocations

\* Who holds what in an allocation vector.
Holdings(allocations) ==
    {<<allocations[i].participant, allocations[i].amount>> : i \in DOMAIN allocations}

\* C27: the allocation vector every checkpoint submits lists the same
\* participants with the same amounts as the allocation vector of the
\* proposal that created the session.
C27_CheckpointKeepsAllocations ==
    [][\A i \in EventsOf(out', "submitAppState") :
          out'[i].ev = "send" =>
              Holdings(out'[i].val.allocations) = Holdings(CreationAllocations(roomAppSessions[out'[i].room]))
      ]_vars


RECURSIVE SumOfAmounts(_)
SumOfAmounts(allocations) ==
    IF allocations = <<>> THEN 0
    ELSE parseFloat(Head(allocations).amount) + SumOfAmounts(Tail(allocations))

\* The pot of a session: the sum of the contributions of its creation
\* proposal.
Pot(session) == toString(SumOfAmounts(CreationAllocations(session)))

\* The calls of closeAppSession for room r that sent their envelope in the
\* step; each holds the session it read at its start.
CloseSenders(r) ==
    {c \in CallIds : /\ calls'[c].op = "close"
                     /\ calls'[c].room = r
                     /\ calls'[c].pc = "waiting"
                     /\ calls[c].pc # "waiting"}

\* The close envelopes a step sent.
CloseSends(o) == {i \in EventsOf(o, "closeAppSession") : o[i].ev = "send"}

\* C28: when the detection finds the game of a room with a session over with
\* winner player1 while the RPC socket is open, closeAppSession sends a
\* close envelope, and the allocations of every close envelope sent for a
\* winner give the winner the pot and every other participant nothing.
C28_WinnerTakesPot ==
    [][/\ \A i \in EventsOf(out', "gameLoop") :
             /\ out'[i].ev = "detect"
             /\ out'[i].val = "player1"
             /\ roomAppSessions[out'[i].room] # NoSession
             /\ WsOpen(ws, readyState)
             => CloseSends(out') # {}
       /\ \A i \in CloseSends(out') :
             out'[i].arg # NullAddress =>
                LET allocations == out'[i].val.allocations
                IN  /\ \E j \in DOMAIN allocations, c \in CloseSenders(out'[i].room) :
                          /\ allocations[j].participant = getAddress(out'[i].arg)
                          /\ allocations[j].amount = Pot(calls'[c].pend)
                    /\ \A j \in DOMAIN allocations :
                          allocations[j].participant # getAddress(out'[i].arg) => allocations[j].amount = "0"
      ]_vars


\* C29: the allocations of every close envelope sent for a game without a
\* winner return to each participant of the creation proposal the amount of
\* its contribution.
C29_TieRefunds ==
    [][\A i \in CloseSends(out') :
          out'[i].arg = NullAddress =>
              \E c \in CloseSenders(out'[i].room) :
                  Holdings(out'[i].val.allocations) = Holdings(CreationAllocations(calls'[c].pend))
      ]_vars


\* The ends of closeAppSession in a step: the returns after an
\* acknowledgment, and the errors it threw.
CloseReturns(o) == {i \in EventsOf(o, "closeAppSession") : o[i].ev = "return" /\ o[i].val = "closed"}
CloseThrows(o) == {i \in EventsOf(o, "closeAppSession") : o[i].ev = "throw"}

\* C30: the session of a room is deleted in exactly the steps in which a
\* closeAppSession of the room returns, and these are acknowledgments of
\* close_app_session by the ledger; a step in which a close throws (rejected,
\* timed out, not sent) leaves every session as it was and starts no close.
C30_DeletedOnAck ==
    [][/\ \A r \in RoomKeys :
             roomAppSessions[r] # NoSession /\ roomAppSessions'[r] = NoSession =>
                 \E i \in CloseReturns(out') : out'[i].room = r
       /\ \A i \in CloseReturns(out') :
             /\ roomAppSessions'[out'[i].room] = NoSession
             /\ \E s \in SocketIds : LedgerAnswer(s, "res", "close_app_session")
       /\ CloseThrows(out') # {} =>
             /\ roomAppSessions' = roomAppSessions
             /\ \A c \in CallIds : calls'[c].op = "close" => calls[c].op = "close"
             /\ CloseSends(out') = {}
      ]_vars

\* C30 witness: a close of room 1 was acknowledged and the session of the
\* room is gone.
C30_Witness ==
    /\ \E i \in CloseReturns(out) : out[i].room = GameRoom
    /\ roomAppSessions[GameRoom] = NoSession


\* The ends of the handleGameOverAppSession calls and of the close path in
\* a step.
HandlerEnds(o) == {i \in EventsOf(o, "handleGameOverAppSession") : o[i].ev \in {"return", "throw"}}

\* C31: every handleGameOverAppSession the detection started ends by
\* resolving, whatever the close path did: in a step where closeAppSession
\* throws, the handler of that room returns; and no detection step throws
\* after it started the handler.
C31_CloseErrorsSwallowed ==
    [][/\ \A i \in HandlerEnds(out') : out'[i].ev = "return"
       /\ \A i \in CloseThrows(out') :
             \E j \in HandlerEnds(out') : j > i /\ out'[j].room = out'[i].room /\ out'[j].val = out'[i].val
       /\ \A i \in EventsOf(out', "gameLoop") :
             out'[i].ev = "detect" => \A j \in EventsOf(out', "gameLoop") : out'[j].ev # "throw"
      ]_vars

\* C31 witness: the close of room 1 was rejected by the ledger and the
\* handler that awaited it returned.
C31_Witness ==
    \E i \in CloseThrows(out), j \in HandlerEnds(out) :
        /\ out[i].val = "Close app session failed"
        /\ out[j].ev = "return"
        /\ out[j].val = "Close app session failed"
        /\ out[j].room = GameRoom


\* The entries of a move log are numbered 1, 2, ... in their order.
Numbered(moves) == \A i \in DOMAIN moves : moves[i].moveNumber = i

\* moves is log, or log with entries added at its end.
Extends(moves, log) == Len(log) <= Len(moves) /\ SubSeq(moves, 1, Len(log)) = log

\* C32: the move log of every session is numbered 1, 2, ... without gap or
\* reuse, a step only adds entries at its end, and addMoveToSession for a
\* room without session changes no session.
C32_MoveSequence ==
    [][/\ \A r \in RoomKeys :
             roomAppSessions'[r] # NoSession =>
                 /\ Numbered(roomAppSessions'[r].moves)
                 /\ roomAppSessions[r] # NoSession =>
                        Extends(roomAppSessions'[r].moves, roomAppSessions[r].moves)
       /\ \A i \in EventsOf(out', "addMoveToSession") :
             roomAppSessions[out'[i].room] = NoSession =>
                 /\ out'[i].ev = "return"
                 /\ roomAppSessions' = roomAppSessions
      ]_vars

\* C32 witness: the second move of the session of room 1 was recorded with
\* number 2.
C32_Witness ==
    /\ roomAppSessions[GameRoom] # NoSession
    /\ Len(roomAppSessions[GameRoom].moves) = 2
    /\ \E i \in EventsOf(out, "addMoveToSession") :
          /\ out[i].ev = "return"
          /\ out[i].val.moveNumber = 2


\* The sessions a step activated: the returns of
\* createAppSessionWithSignatures with a session id.
Activations(o) ==
    {i \in EventsOf(o, "createAppSessionWithSignatures") : o[i].ev = "return" /\ o[i].val \in SessionIds}

\* C33: the fee ledger is append-only: the ledger stored at activation
\* extends the ledger of the creation proposal, the ledger of every
\* checkpoint and of every close envelope extends the stored ledger, and a
\* stored ledger only grows at its end.
C33_LedgerAppendOnly ==
    [][/\ \A i \in Activations(out') :
             Extends(roomAppSessions'[out'[i].room].feeHistory,
                     out'[i].arg.appSessionData.session_data.feeHistory)
       /\ \A i \in EventsOf(out', "submitAppState") \cup CloseSends(out') :
             out'[i].ev = "send" /\ roomAppSessions[out'[i].room] # NoSession =>
                 Extends(out'[i].val.feeHistory, roomAppSessions[out'[i].room].feeHistory)
       /\ \A r \in RoomKeys :
             roomAppSessions[r] # NoSession /\ roomAppSessions'[r] # NoSession =>
                 Extends(roomAppSessions'[r].feeHistory, roomAppSessions[r].feeHistory)
      ]_vars


RECURSIVE SumOfWeights(_)
SumOfWeights(weights) == IF weights = <<>> THEN 0 ELSE Head(weights) + SumOfWeights(Tail(weights))

\* Definition d lists the player first and the service last, with one weight
\* each: nothing for the player, everything for the service, the quorum in
\* all, and no challenge period.
ServiceDecides(d, player, service) ==
    LET n == Len(d.participants)
    IN  /\ n >= 2
        /\ d.participants[n] = service
        /\ d.participants[1] = player
        /\ \A i \in 1..(n - 1) : d.participants[i] # service
        /\ Len(d.weights) = n
        /\ \A i \in 1..(n - 1) : d.weights[i] = 0
        /\ d.weights[n] = d.quorum
        /\ SumOfWeights(d.weights) = d.quorum
        /\ d.quorum > 0
        /\ d.challenge = 0

\* The proposals a step returned.
Proposals(o) == {i \in EventsOf(o, "generateAppSessionMessage") : o[i].ev = "return"}

\* C34: the definition of every stored pending session and of every
\* proposal returned, new or reused, gives the service alone the deciding
\* weight, in the definition sent to the players and in the one of the
\* request.
C34_ServiceHoldsWeight ==
    /\ \A r \in RoomKeys :
          pendingAppSessions[r] # NoSession =>
              LET p == pendingAppSessions[r]
              IN  /\ ServiceDecides(p.appDefinition, p.participantA, p.serverAddress)
                  /\ ServiceDecides(p.appSessionData.definition, p.participantA, p.serverAddress)
                  /\ ServiceDecides(p.requestToSign[3].definition, p.participantA, p.serverAddress)
    /\ \A i \in Proposals(out) :
          /\ ServiceDecides(out[i].val.appDefinition, out[i].val.participants[1], out[i].val.participants[2])
          /\ ServiceDecides(out[i].val.appSessionData.definition,
                            out[i].val.participants[1], out[i].val.participants[2])

\* C34 witness: a proposal for room 1 was returned and is stored.
C34_Witness ==
    /\ Proposals(out) # {}
    /\ \E r \in Rooms : pendingAppSessions[r] # NoSession /\ pendingAppSessions[r].participantA = EOA(1)


\* C35: while a room has a pending session, its nonce, its request tuple
\* and the signatures collected in it are never replaced, also when two
\* proposals for the room were suspended in ensureConnected together.
C35_PendingNeverReplaced ==
    [][\A r \in RoomKeys :
          pendingAppSessions[r] # NoSession /\ pendingAppSessions'[r] # NoSession =>
              /\ pendingAppSessions'[r].nonce = pendingAppSessions[r].nonce
              /\ pendingAppSessions'[r].requestToSign = pendingAppSessions[r].requestToSign
              /\ DOMAIN pendingAppSessions[r].signatures \subseteq DOMAIN pendingAppSessions'[r].signatures
      ]_vars

\* The create_app_session envelopes the last step wrote to the settlement socket.
CreateSends(o) == {i \in EventsOf(o, "createAppSessionWithSignatures") : o[i].ev = "send"}

\* C36: the service signature and the service address of every submitted
\* create_app_session envelope belong to the session key authenticated on the
\* connection the envelope is sent over.
C36_ServiceKeyOfConnection ==
    \A i \in CreateSends(out) :
        /\ out[i].val.sig[3].key = sessionKey
        /\ out[i].arg.serverAddress = getAddress(KeyAddress(sessionKey))

\* The waits of a create, a close or a checkpoint that the last step ended
\* with the error of an err frame.
ErrorReplies == {"Create app session failed", "Close app session failed", "Submit app state failed"}
ErrRejections(o) ==
    {i \in DOMAIN o :
        /\ \/ o[i].op \in {"createAppSessionWithSignatures", "closeAppSession"} /\ o[i].ev = "throw"
           \/ o[i].op = "submitAppState" /\ o[i].ev # "send"
        /\ o[i].val \in ErrorReplies}

\* C37: an err frame rejects only the submission it answers: one frame
\* never fails more than one of the waits outstanding on the connection.
C37_ErrRejectsOne == Cardinality(ErrRejections(out)) <= 1

\* The settlement sockets of the client that are open or being established.
LiveSockets == {s \in DOMAIN readyState : readyState[s] \in {"CONNECTING", "OPEN"}}

\* C38: at most one settlement socket is open or being established at any
\* time: callers of ensureConnected share one connection attempt.
C38_OneSocket == Cardinality(LiveSockets) <= 1

\* C39: every address-to-room binding refers to a room that is in the
\* registry and whose connections contain the address; after closeRoom the
\* identities of the closed room are unbound.
C39_BindingsReferToRooms ==
    \A a \in DOMAIN addressToRoom :
        /\ rooms[addressToRoom[a]] # NoRoom
        /\ a \in DOMAIN rooms[addressToRoom[a]].connections

\* The ends of the waits of create, close and checkpoint in what a step
\* wrote: the resolution or the rejection of the promise of a waiting call.
WaitEnds(o) ==
    {i \in DOMAIN o :
        \/ /\ o[i].op = "createAppSessionWithSignatures"
           /\ \/ o[i].ev = "return"
              \/ /\ o[i].ev = "throw"
                 /\ o[i].val \in {"Create app session failed", "Timeout waiting for app session creation",
                                  "no ID returned"}
        \/ /\ o[i].op = "closeAppSession"
           /\ o[i].ev \in {"return", "throw"}
           /\ o[i].val \in {"closed", "Close app session failed", "Timeout waiting for session closure"}
        \/ /\ o[i].op = "submitAppState"
           /\ o[i].ev # "send"
           /\ o[i].val \in {"submitted", "Submit app state failed", "Timeout waiting for state submission"}}

\* The settlements of the promises of sendRequest in what a step wrote.
RequestEnds(o) ==
    {i \in DOMAIN o :
        /\ o[i].op = "sendRequest"
        /\ o[i].ev \in {"return", "throw"}
        /\ o[i].val \notin {"WebSocket not connected", "signer is null"}}

\* Every settlement is that of an exchange that was outstanding and is so
\* no more: a wait, a request, a handshake settles at most once.
SettlesOnce ==
    /\ Cardinality(WaitEnds(out')) =
          Cardinality({c \in CallIds : calls[c].pc = "waiting" /\ calls'[c].pc # "waiting"})
    /\ \A i \in RequestEnds(out') :
          out'[i].arg \in pendingRequests /\ out'[i].arg \notin pendingRequests'
    /\ \A s \in SocketIds :
          authState[s] \in {"done", "failed", "timedout"} => authState'[s] = authState[s]

====
